---- MODULE Spec2Model ----
(***************************************************************************)
(* Model of the job engine of mlcupscale: the job registry, the worker     *)
(* pool, processJob with its staging / subprocess / publish / finalize     *)
(* steps, CancelJob, the progress callback and the download handler that   *)
(* reads a job without holding the registry mutex.  The cleanup sweeper is *)
(* not part of this specification: it removes files older than its 15      *)
(* minute TTL, longer than the 10 minute deadline of a job, so it never    *)
(* touches the output of a job that is still being processed.              *)
(*                                                                         *)
(* Every critical section of internal/upscaler/upscaler.go is modelled     *)
(* with the mutex as a variable.  A critical section that writes several   *)
(* fields a handler reads without the mutex (Status, Progress, Result,     *)
(* Error) is split into one step per write, in program order, so that the  *)
(* unsynchronised reads of internal/api/handlers.go see the intermediate   *)
(* states the data race allows.                                            *)
(***************************************************************************)
EXTENDS Integers, Sequences, FiniteSets, TLC

(* ------------------------------ bounds --------------------------------- *)
MaxJobs == 1          \* number of SubmitJob calls explored
NumWorkers == 1       \* StartWorkers(count)
QueueCap == 1         \* scaled-down capacity of the jobQueue channel
MultiJobs == 2         \* number of SubmitJob calls explored by SpecMulti
MultiWorkers == 2      \* StartWorkers(count) in SpecMulti
PoolJobs == 3         \* number of SubmitJob calls explored by SpecPool
MaxDownloads == 2      \* download requests that reach the file, per job
ModelFiles == 3        \* entries of the models directory
MaxFiles == 2         \* files ever created in the upload and output directories
MaxClock == 3         \* minutes of wall clock explored by SpecSweep
MaxLimitMB == 2       \* largest storage.Config.MaxFileSizeMB explored
CleanupTTL == 1       \* scaled-down storage.Config.CleanupTTL, in minutes

(* ----------------------------- constants ------------------------------- *)
InitialProgress == 0      \* SubmitJob: Progress: 0
ProcessingProgress == 1   \* processJob: job.Progress = 1
CompletedProgress == 100  \* processJob: job.Progress = 100
MinScale == 2             \* validate: req.Scale < 2
MaxScale == 4             \* validate: req.Scale > 4

JobIds == 1..MaxJobs          \* the Job objects SubmitJob may allocate
PoolJobIds == 1..PoolJobs
MultiJobIds == 1..MultiJobs
MultiWorkerIds == 1..MultiWorkers
\* mutant: StartWorkers starts one worker more than asked
Workers_OneMore == 1..(NumWorkers + 1)

Workers == 1..NumWorkers
Nil == "nil"
NoJob == 0
\* a nil *Result, and the Result literal built by Upscale
NilResult == [nil |-> TRUE, OutputPath |-> ""]
NewResult(path) == [nil |-> FALSE, OutputPath |-> path]
Free == 0                 \* jobsMu not held

\* Lines the subprocess may print on stderr: whether the line contains "%",
\* whether Sscanf("%f") finds a number at its start once the line is trimmed,
\* and that number in hundredths ("50.99%", "150%", "-5.5%", "3.00", "model%")
StderrLines ==
    {[pct |-> TRUE, numeric |-> TRUE, hundredths |-> 5099],
     [pct |-> TRUE, numeric |-> TRUE, hundredths |-> 15000],
     [pct |-> TRUE, numeric |-> TRUE, hundredths |-> -550],
     [pct |-> FALSE, numeric |-> TRUE, hundredths |-> 300],
     [pct |-> TRUE, numeric |-> FALSE, hundredths |-> 0]}

\* int(percent): the float to int conversion truncates toward zero
IntOfPercent(h) == IF h >= 0 THEN h \div 100 ELSE -((-h) \div 100)

\* the stderr goroutine: the values it passes to onProgress for one line
ParsedProgress(line) ==
    IF line.pct /\ line.numeric THEN {IntOfPercent(line.hundredths)} ELSE {}

\* int(percent) values the stderr reader may hand to onProgress
ProgressValues == UNION {ParsedProgress(l) : l \in StderrLines}
\* Request.Scale values submitted
ScaleValues == {4, 7}

VARIABLES
    jobs,        \* the Job objects allocated so far: object -> its fields
    registry,    \* Service.jobs: job ID -> Job object
    jobsMu,      \* Service.jobsMu: Free or the worker inside a split critical section
    jobQueue,    \* Service.jobQueue: sequence of job ids in the channel buffer
    pending,     \* ids whose SubmitJob goroutine has not yet sent on jobQueue
    pc,          \* per worker: position in worker()/processJob
    cur,         \* per worker: the job being processed (NoJob when idle)
    err,         \* per worker: local err of processJob
    result,      \* per worker: local result of processJob
    ctxErr,      \* per job: ctx.Err() of the job's context ("unset" before it exists)
    proc,        \* per job: state of the external subprocess
    reader,      \* per job: state of the stderr-parsing goroutine
    fs,          \* per job: the files input, tmpIn, tmpOut, out
    dl,          \* the HandleDownload request in flight
    cancelResp,  \* the last answer of HandleCancel, with the Status it found
    cancelledAt, \* history: Status the job had when CancelJob flipped it
    dequeued,    \* history: ids a worker has received from jobQueue
    clock,       \* time.Now(), in minutes
    files,       \* the entries of the upload and output directories
    ticker,      \* ticks waiting in ticker.C of the cleanup routine
    sweeper,     \* the cleanup routine: its position in CleanupOldFiles
    modelsDir,   \* the entries of the models directory
    modelsResp,  \* the last answer of HandleModels
    retention,   \* storage.Config.RetentionPolicy
    served,      \* history: per job, the downloads that sent the file
    deleters,    \* jobs with a delete-after-download goroutine still to run
    dlResp,      \* the last answer of HandleDownload
    upload       \* the last call of SaveUpload, with the limit of the Manager

\* the state outside the job engine
aux == <<clock, files, ticker, sweeper, modelsDir, modelsResp, retention,
         served, deleters, dlResp, upload>>

vars == <<jobs, registry, jobsMu, jobQueue, pending, pc, cur, err, result,
          ctxErr, proc, reader, fs, dl, cancelResp, cancelledAt, dequeued,
          aux>>

(* ------------------------------ helpers -------------------------------- *)
\* Job literal of SubmitJob
NewJob(id, req) ==
    [ID |-> id, Request |-> req, Status |-> "queued", Progress |-> InitialProgress,
     Result |-> NilResult, Error |-> Nil, cancelFunc |-> FALSE]

\* context.CancelFunc: the first cancellation cause wins
CancelCtx(e) == IF e = "nil" THEN "Canceled" ELSE e

\* processJob returns: defer cancel() runs and ctx, a local, is gone
ReleaseCtx(e) == "unset"

\* validate: the scale check
ScaleValid(scale) == ~(scale < MinScale \/ scale > MaxScale)

DlIdle == [pc |-> "idle", job |-> NoJob]

\* HandleCancel has not answered yet
NoResponse == [error |-> "none", found |-> "none", invoked |-> FALSE]

NoFiles == [input |-> "none", tmpIn |-> "none", tmpOut |-> "none", out |-> "none"]

\* the cleanup routine blocked on ticker.C, with the record of its last run:
\* aged, the entries that were older than the cutoff when the run began;
\* removed, statFailed, deleteFailed, what the run did to its entries;
\* listFailed, whether a directory could not be listed; failedBefore, the
\* entries whose deletion failed in an earlier run
SweeperWaiting ==
    [pc |-> "wait", cutoff |-> 0, dirs |-> <<>>, entries |-> <<>>, ran |-> FALSE,
     aged |-> {}, removed |-> {}, statFailed |-> {}, deleteFailed |-> {},
     listFailed |-> FALSE, failedBefore |-> {}]

\* HandleModels and HandleDownload have not answered yet
NoQuery == [given |-> FALSE, parsed |-> FALSE, scale |-> 0]
NoModelsResponse == [status |-> 0, models |-> <<>>, query |-> NoQuery]
NoDownload == [answer |-> "none", job |-> NoJob, status |-> "none"]

\* no upload saved yet by a Manager whose Config.MaxFileSizeMB is maxMB
NoUpload(maxMB) ==
    [maxMB |-> maxMB, called |-> FALSE, size |-> 0, error |-> Nil,
     written |-> FALSE]

\* NewManager: both directories exist and are empty, no tick yet
StorageConfigured(maxMB) ==
    /\ clock = 0
    /\ files = <<>>
    /\ ticker = 0
    /\ sweeper = SweeperWaiting
    /\ upload = NoUpload(maxMB)

StorageInit == StorageConfigured(MaxLimitMB)

\* no request for the model list yet
ModelsInit(dir) ==
    /\ modelsDir = dir
    /\ modelsResp = NoModelsResponse

\* no download yet
DownloadInit(policy) ==
    /\ retention = policy
    /\ served = <<>>
    /\ deleters = {}
    /\ dlResp = NoDownload

\* NewService, StartWorkers: no job, every worker waiting on the queue;
\* J is the set of Job objects the run may allocate
InitEngine(J, W) ==
    /\ jobs = <<>>
    /\ registry = <<>>
    /\ cancelResp = NoResponse
    /\ jobsMu = Free
    /\ jobQueue = <<>>
    /\ pending = {}
    /\ pc = [w \in W |-> "idle"]
    /\ cur = [w \in W |-> NoJob]
    /\ err = [w \in W |-> Nil]
    /\ result = [w \in W |-> NilResult]
    /\ ctxErr = [j \in J |-> "unset"]
    /\ proc = [j \in J |-> "none"]
    /\ reader = [j \in J |-> "none"]
    /\ fs = [j \in J |-> NoFiles]
    /\ dl = DlIdle
    /\ cancelledAt = [j \in J |-> "never"]
    /\ dequeued = {}

\* the engine with the workers of StartWorkers(NumWorkers)
InitJobs(J) == InitEngine(J, Workers)

InitFor(J) ==
    /\ InitJobs(J)
    /\ StorageInit
    /\ ModelsInit(<<>>)
    /\ DownloadInit("keep")

Init == InitFor(JobIds)

(* ----------------------- registry operations --------------------------- *)
\* generateJobID: the decimal rendering of the clock reading
generateJobID(now) == ToString(now)

\* mutant: SubmitJob hands out the last Job object again
NewHandle_Reuse == IF jobs = <<>> THEN 1 ELSE Cardinality(DOMAIN jobs)

\* job := &Job{...}: the object SubmitJob allocates
NewHandle == Cardinality(DOMAIN jobs) + 1

\* the last reading of the wall clock that became a job ID
LastReading == Cardinality(DOMAIN registry)

\* time.Now().UnixNano() when every call reads a later instant
LaterReadings == {LastReading + 1}

\* time.Now().UnixNano() when the clock may also repeat its last reading
\* (a coarse clock, or a clock that was set back)
ClockReadings == {n \in {LastReading, LastReading + 1} : n > 0}

\* the job IDs a client may ask about: the ones handed out and one more
KnownIDs(J) == {generateJobID(n) : n \in J}

\* mutant: SubmitJob sends on the queue itself and waits for a free slot
SubmitWaits_ForSlot(queue) == Len(queue) >= QueueCap

\* SubmitJob: the send on jobQueue is left to a goroutine, the caller never
\* waits for a slot
SubmitWaits(queue) == FALSE

\* SubmitJob: register the job under the mutex, leave the send to a goroutine.
\* inputExists: whether req.InputPath names a file (the handler saves the
\* upload before it calls SubmitJob).
SubmitJob(req, now, inputExists) ==
    /\ jobsMu = Free
    /\ NewHandle \in DOMAIN fs
    /\ ~SubmitWaits(jobQueue)
    /\ LET id == generateJobID(now)
           job == NewHandle IN
        /\ jobs' = jobs @@ (job :> NewJob(id, req))
        /\ registry' = (id :> job) @@ registry
        /\ pending' = pending \cup {job}
        /\ fs' = [fs EXCEPT ![job].input = IF inputExists THEN "full" ELSE "none"]
    /\ UNCHANGED aux
    /\ UNCHANGED <<jobsMu, jobQueue, pc, cur, err, result, ctxErr, proc,
                   reader, dl, cancelResp, cancelledAt, dequeued>>

\* mutant: the send does not wait, a job that finds the buffer full is dropped
Enqueue_Drop(id) ==
    /\ id \in pending
    /\ jobQueue' = IF Len(jobQueue) < QueueCap
                   THEN Append(jobQueue, id)
                   ELSE jobQueue
    /\ pending' = pending \ {id}
    /\ UNCHANGED aux
    /\ UNCHANGED <<registry, cancelResp>>
    /\ UNCHANGED <<jobs, jobsMu, pc, cur, err, result, ctxErr, proc, reader,
                   fs, dl, cancelledAt, dequeued>>

\* go func() { s.jobQueue <- job }(): blocks while the buffer is full
Enqueue(id) ==
    /\ id \in pending
    /\ Len(jobQueue) < QueueCap
    /\ jobQueue' = Append(jobQueue, id)
    /\ pending' = pending \ {id}
    /\ UNCHANGED aux
    /\ UNCHANGED <<registry, cancelResp>>
    /\ UNCHANGED <<jobs, jobsMu, pc, cur, err, result, ctxErr, proc, reader,
                   fs, dl, cancelledAt, dequeued>>

\* mutant: CancelJob forgets that a completed job is finished
AlreadyFinished_NotCompleted(status) == status = "failed"

\* mutant: CancelJob forgets that a failed job is finished
AlreadyFinished_NotFailed(status) == status = "completed"

\* mutant: CancelJob treats no job as finished
AlreadyFinished_Never(status) == FALSE

\* CancelJob: the statuses on which it returns "job already finished"
AlreadyFinished(status) == status = "completed" \/ status = "failed"

\* mutant: CancelJob does not recognise a job that is already cancelled
AlreadyCancelled_Never(status) == FALSE

\* CancelJob: the status on which it returns nil at once
AlreadyCancelled(status) == status = "cancelled"

\* CancelJob(jobID): the error it returns, whether it invokes job.cancelFunc,
\* and what it leaves in the Job objects and in the contexts (found: the
\* Status it met, "missing" for an unknown ID)
\* mutant: CancelJob invokes the cancellation handle and leaves the Status
\* to the worker
CancelJobOutcome_SignalOnly(id) ==
    IF id \notin DOMAIN registry
    THEN [error |-> "job not found", found |-> "missing", invoked |-> FALSE,
          jobs |-> jobs, ctxErr |-> ctxErr]
    ELSE LET job == registry[id] IN
         [error |-> Nil, found |-> jobs[job].Status,
          invoked |-> jobs[job].cancelFunc,
          jobs |-> jobs,
          ctxErr |-> IF jobs[job].cancelFunc
                     THEN [ctxErr EXCEPT ![job] = CancelCtx(@)]
                     ELSE ctxErr]

CancelJobOutcome(id) ==
    IF id \notin DOMAIN registry
    THEN [error |-> "job not found", found |-> "missing", invoked |-> FALSE,
          jobs |-> jobs, ctxErr |-> ctxErr]
    ELSE LET job == registry[id] IN
         IF AlreadyFinished(jobs[job].Status)
         THEN [error |-> "job already finished", found |-> jobs[job].Status,
               invoked |-> FALSE, jobs |-> jobs, ctxErr |-> ctxErr]
         ELSE IF AlreadyCancelled(jobs[job].Status)
         THEN [error |-> Nil, found |-> jobs[job].Status, invoked |-> FALSE,
               jobs |-> jobs, ctxErr |-> ctxErr]
         ELSE [error |-> Nil, found |-> jobs[job].Status,
               invoked |-> jobs[job].cancelFunc,
               jobs |-> [jobs EXCEPT ![job].Status = "cancelled"],
               ctxErr |-> IF jobs[job].cancelFunc
                          THEN [ctxErr EXCEPT ![job] = CancelCtx(@)]
                          ELSE ctxErr]

\* history: the Status each job had when a CancelJob call flipped it
CancelledAtAfter(o) ==
    [j \in DOMAIN cancelledAt |->
       IF j \in DOMAIN jobs /\ o.jobs[j].Status # jobs[j].Status
       THEN jobs[j].Status
       ELSE cancelledAt[j]]

\* CancelJob on a known job that is neither finished nor already cancelled
CancelJob(id) ==
    /\ jobsMu = Free
    /\ LET o == CancelJobOutcome(id) IN
        /\ o.jobs # jobs
        /\ jobs' = o.jobs
        /\ ctxErr' = o.ctxErr
        /\ cancelledAt' = CancelledAtAfter(o)
    /\ UNCHANGED aux
    /\ UNCHANGED <<registry, cancelResp>>
    /\ UNCHANGED <<jobsMu, jobQueue, pending, pc, cur, err, result, proc,
                   reader, fs, dl, dequeued>>

\* CancelJob on an unknown, finished or already cancelled job: returns,
\* changes nothing
CancelJobNoop(id) ==
    /\ jobsMu = Free
    /\ CancelJobOutcome(id).jobs = jobs
    /\ UNCHANGED vars

\* HandleCancel: calls CancelJob(job_id) and answers 400 with the error or
\* 200; the answer is kept with the Status the call met
HandleCancel(id) ==
    /\ jobsMu = Free
    /\ LET o == CancelJobOutcome(id) IN
        /\ jobs' = o.jobs
        /\ ctxErr' = o.ctxErr
        /\ cancelledAt' = CancelledAtAfter(o)
        /\ cancelResp' = [error |-> o.error, found |-> o.found,
                          invoked |-> o.invoked]
    /\ UNCHANGED aux
    /\ UNCHANGED <<registry, jobsMu, jobQueue, pending, pc, cur, err, result,
                   proc, reader, fs, dl, dequeued>>

(* ----------------------------- worker ---------------------------------- *)
\* mutant: the worker takes the first job ever allocated, whatever it received
Received_First(queue) == 1

\* the receive on the channel yields the job at its head
Received(queue) == Head(queue)

\* worker: for job := range s.jobQueue
Dequeue(w) ==
    /\ pc[w] = "idle"
    /\ jobQueue # <<>>
    /\ cur' = [cur EXCEPT ![w] = Received(jobQueue)]
    /\ jobQueue' = Tail(jobQueue)
    /\ dequeued' = dequeued \cup {Received(jobQueue)}
    /\ pc' = [pc EXCEPT ![w] = "claim"]
    /\ UNCHANGED aux
    /\ UNCHANGED <<registry, cancelResp>>
    /\ UNCHANGED <<jobs, jobsMu, pending, err, result, ctxErr, proc, reader,
                   fs, dl, cancelledAt>>

\* mutant: processJob does not check for a job cancelled in the queue
DiscardOnClaim_Never(status) == FALSE

\* processJob, first critical section: the check made on a dequeued job
DiscardOnClaim(status) == status = "cancelled"

\* processJob: lock, discard a job cancelled in the queue, else Status = processing
ClaimJob(w) ==
    /\ pc[w] = "claim"
    /\ jobsMu = Free
    /\ IF DiscardOnClaim(jobs[cur[w]].Status)
       THEN /\ pc' = [pc EXCEPT ![w] = "idle"]
            /\ cur' = [cur EXCEPT ![w] = NoJob]
            /\ UNCHANGED <<jobs, jobsMu>>
       ELSE /\ jobs' = [jobs EXCEPT ![cur[w]].Status = "processing"]
            /\ jobsMu' = w
            /\ pc' = [pc EXCEPT ![w] = "claim2"]
            /\ UNCHANGED cur
    /\ UNCHANGED aux
    /\ UNCHANGED <<registry, cancelResp>>
    /\ UNCHANGED <<jobQueue, pending, err, result, ctxErr, proc, reader, fs,
                   dl, cancelledAt, dequeued>>

\* mutant: the unlock that ends the claim is deferred to the return of
\* processJob, the worker stages and upscales with the mutex held
UnlockAfterSetup_Deferred(w) == w

\* processJob: s.jobsMu.Unlock() once the cancelFunc is stored
UnlockAfterSetup(w) == Free

\* processJob: Progress = 1, create the context, store cancelFunc, unlock
ClaimSetup(w) ==
    /\ pc[w] = "claim2"
    /\ jobsMu = w
    /\ jobs' = [jobs EXCEPT ![cur[w]].Progress = ProcessingProgress,
                            ![cur[w]].cancelFunc = TRUE]
    /\ ctxErr' = [ctxErr EXCEPT ![cur[w]] = "nil"]
    /\ jobsMu' = UnlockAfterSetup(w)
    /\ pc' = [pc EXCEPT ![w] = "stage"]
    /\ UNCHANGED aux
    /\ UNCHANGED <<registry, cancelResp>>
    /\ UNCHANGED <<jobQueue, pending, cur, err, result, proc, reader, fs, dl,
                   cancelledAt, dequeued>>

\* onProgress: the value the callback leaves in job.Progress
ProgressAfter(old, p) == IF p > old THEN p ELSE old

\* the stderr goroutine parsed a percentage line and calls onProgress(p)
OnProgress(id, p) ==
    /\ reader[id] = "running"
    /\ jobsMu = Free
    /\ jobs' = [jobs EXCEPT ![id].Progress = ProgressAfter(@, p)]
    /\ UNCHANGED aux
    /\ UNCHANGED <<registry, cancelResp>>
    /\ UNCHANGED <<jobsMu, jobQueue, pending, pc, cur, err, result, ctxErr,
                   proc, reader, fs, dl, cancelledAt, dequeued>>

\* processJob: failure return, Status = failed (mutex taken)
FailStatus(w) ==
    /\ pc[w] = "fail"
    /\ jobsMu = Free
    /\ jobs' = [jobs EXCEPT ![cur[w]].Status = "failed"]
    /\ jobsMu' = w
    /\ pc' = [pc EXCEPT ![w] = "fail2"]
    /\ UNCHANGED aux
    /\ UNCHANGED <<registry, cancelResp>>
    /\ UNCHANGED <<jobQueue, pending, cur, err, result, ctxErr, proc, reader,
                   fs, dl, cancelledAt, dequeued>>

\* processJob: failure return, Error = err, unlock, return (deferred cancel)
FailError(w) ==
    /\ pc[w] = "fail2"
    /\ jobsMu = w
    /\ jobs' = [jobs EXCEPT ![cur[w]].Error = err[w]]
    /\ jobsMu' = Free
    /\ ctxErr' = [ctxErr EXCEPT ![cur[w]] = ReleaseCtx(@)]
    /\ pc' = [pc EXCEPT ![w] = "idle"]
    /\ cur' = [cur EXCEPT ![w] = NoJob]
    /\ err' = [err EXCEPT ![w] = Nil]
    /\ result' = [result EXCEPT ![w] = NilResult]
    /\ UNCHANGED aux
    /\ UNCHANGED <<registry, cancelResp>>
    /\ UNCHANGED <<jobQueue, pending, proc, reader, fs, dl,
                   cancelledAt, dequeued>>


(* ------------------------- staging and upscale ------------------------- *)
\* copyFile(src, dst): the possible outcomes, given the state of both files.
\* os.Open fails on a missing source; os.Open or os.Create may fail and leave
\* dst alone; io.Copy may fail after os.Create truncated dst; else dst = src.
\* mutant: a missing source is not an error, the copy leaves an empty file
CopyFileOutcomes_MissingOk(src, dst) ==
    IF src = "none"
    THEN {[ok |-> TRUE, dst |-> "partial"]}
    ELSE {[ok |-> FALSE, dst |-> dst],
          [ok |-> FALSE, dst |-> "partial"],
          [ok |-> TRUE, dst |-> src]}

CopyFileOutcomes(src, dst) ==
    IF src = "none"
    THEN {[ok |-> FALSE, dst |-> dst]}
    ELSE {[ok |-> FALSE, dst |-> dst],
          [ok |-> FALSE, dst |-> "partial"],
          [ok |-> TRUE, dst |-> src]}

\* processJob: os.MkdirAll(tmpDir), then copyFile(origInput, tmpInput)
StageInput(w) ==
    /\ pc[w] = "stage"
    /\ \E mkdirOk \in BOOLEAN :
         IF ~mkdirOk
         THEN /\ pc' = [pc EXCEPT ![w] = "fail"]
              /\ err' = [err EXCEPT ![w] = "failed to create temp dir"]
              /\ UNCHANGED fs
         ELSE \E o \in CopyFileOutcomes(fs[cur[w]].input, fs[cur[w]].tmpIn) :
                /\ fs' = [fs EXCEPT ![cur[w]].tmpIn = o.dst]
                /\ IF o.ok
                   THEN /\ pc' = [pc EXCEPT ![w] = "upscale"]
                        /\ UNCHANGED err
                   ELSE /\ pc' = [pc EXCEPT ![w] = "fail"]
                        /\ err' = [err EXCEPT ![w] = "failed to copy input to temp"]
    /\ UNCHANGED aux
    /\ UNCHANGED <<registry, cancelResp>>
    /\ UNCHANGED <<jobs, jobsMu, jobQueue, pending, cur, result, ctxErr, proc,
                   reader, dl, cancelledAt, dequeued>>

\* the context is done: cancelled or past its deadline
CtxDone(e) == e \in {"Canceled", "DeadlineExceeded"}

\* validate: binary, input and model are found and the scale is supported
validate(req, binaryFound, inputFound, modelFound) ==
    binaryFound /\ inputFound /\ ScaleValid(req.Scale) /\ modelFound

\* Upscale up to cmd.Start: a validation error, an error before the spawn
\* (input size, stderr pipe, start; Start refuses a context that is already
\* done), or the subprocess and its reader start
UpscaleStart(w) ==
    /\ pc[w] = "upscale"
    /\ \E binaryFound \in BOOLEAN, modelFound \in BOOLEAN, started \in BOOLEAN :
         IF ~validate(jobs[cur[w]].Request, binaryFound,
                      fs[cur[w]].tmpIn # "none", modelFound)
         THEN /\ err' = [err EXCEPT ![w] = "validation failed"]
              /\ pc' = [pc EXCEPT ![w] = "publish"]
              /\ UNCHANGED <<proc, reader>>
         ELSE IF started /\ ~CtxDone(ctxErr[cur[w]])
              THEN /\ proc' = [proc EXCEPT ![cur[w]] = "running"]
                   /\ reader' = [reader EXCEPT ![cur[w]] = "running"]
                   /\ pc' = [pc EXCEPT ![w] = "cmdWait"]
                   /\ UNCHANGED err
              ELSE /\ err' = [err EXCEPT ![w] = "failed to start command"]
                   /\ pc' = [pc EXCEPT ![w] = "publish"]
                   /\ UNCHANGED <<proc, reader>>
    /\ UNCHANGED aux
    /\ UNCHANGED <<registry, cancelResp>>
    /\ UNCHANGED <<jobs, jobsMu, jobQueue, pending, cur, result, ctxErr, fs,
                   dl, cancelledAt, dequeued>>

(* --------------------- subprocess, context, reader --------------------- *)
\* context.WithTimeout: the 10 minute deadline passes
Deadline(id) ==
    /\ ctxErr[id] = "nil"
    /\ ctxErr' = [ctxErr EXCEPT ![id] = "DeadlineExceeded"]
    /\ UNCHANGED aux
    /\ UNCHANGED <<registry, cancelResp>>
    /\ UNCHANGED <<jobs, jobsMu, jobQueue, pending, pc, cur, err, result,
                   proc, reader, fs, dl, cancelledAt, dequeued>>

\* the subprocess writes its output file in the scratch directory
ProcWrite(id) ==
    /\ proc[id] = "running"
    /\ fs[id].tmpOut # "full"
    /\ fs' = [fs EXCEPT ![id].tmpOut = IF @ = "none" THEN "partial" ELSE "full"]
    /\ UNCHANGED aux
    /\ UNCHANGED <<registry, cancelResp>>
    /\ UNCHANGED <<jobs, jobsMu, jobQueue, pending, pc, cur, err, result,
                   ctxErr, proc, reader, dl, cancelledAt, dequeued>>

\* the subprocess exits on its own, with status zero or not
ProcExit(id, zero) ==
    /\ proc[id] = "running"
    /\ proc' = [proc EXCEPT ![id] = IF zero THEN "exited0" ELSE "exitedErr"]
    /\ UNCHANGED aux
    /\ UNCHANGED <<registry, cancelResp>>
    /\ UNCHANGED <<jobs, jobsMu, jobQueue, pending, pc, cur, err, result,
                   ctxErr, reader, fs, dl, cancelledAt, dequeued>>

\* exec.CommandContext: the subprocess is killed once the context is done
ProcKill(id) ==
    /\ proc[id] = "running"
    /\ CtxDone(ctxErr[id])
    /\ proc' = [proc EXCEPT ![id] = "killed"]
    /\ UNCHANGED aux
    /\ UNCHANGED <<registry, cancelResp>>
    /\ UNCHANGED <<jobs, jobsMu, jobQueue, pending, pc, cur, err, result,
                   ctxErr, reader, fs, dl, cancelledAt, dequeued>>

\* the stderr goroutine: scanner.Scan() returns false after the process ended
ReaderEOF(id) ==
    /\ reader[id] = "running"
    /\ proc[id] # "running"
    /\ reader' = [reader EXCEPT ![id] = "done"]
    /\ UNCHANGED aux
    /\ UNCHANGED <<registry, cancelResp>>
    /\ UNCHANGED <<jobs, jobsMu, jobQueue, pending, pc, cur, err, result,
                   ctxErr, proc, fs, dl, cancelledAt, dequeued>>

\* cmd.Wait: nil only for exit status zero; a context that was done while the
\* process was still waited for may turn a zero exit into ctx.Err()
CmdWaitOutcomes(p, e) ==
    IF p = "exited0"
    THEN IF CtxDone(e) THEN {TRUE, FALSE} ELSE {TRUE}
    ELSE {FALSE}

\* Upscale: cmd.Wait returns and the process is reaped
CmdWait(w) ==
    /\ pc[w] = "cmdWait"
    /\ proc[cur[w]] \notin {"running", "reaped"}
    /\ proc' = [proc EXCEPT ![cur[w]] = "reaped"]
    /\ \E ok \in CmdWaitOutcomes(proc[cur[w]], ctxErr[cur[w]]) :
         IF ok
         THEN /\ pc' = [pc EXCEPT ![w] = "wgWait"]
              /\ UNCHANGED err
         ELSE /\ pc' = [pc EXCEPT ![w] = "publish"]
              /\ err' = [err EXCEPT ![w] = "upscale failed"]
    /\ UNCHANGED aux
    /\ UNCHANGED <<registry, cancelResp>>
    /\ UNCHANGED <<jobs, jobsMu, jobQueue, pending, cur, result, ctxErr,
                   reader, fs, dl, cancelledAt, dequeued>>

\* mutant: Upscale does not wait for the stderr goroutine
ReaderFinished_NoWait(r) == TRUE

\* mutant: the stderr goroutine never calls wg.Done()
ReaderFinished_Never(r) == FALSE

\* Upscale: wg.Wait() returns once the stderr goroutine has called wg.Done()
ReaderFinished(r) == r = "done"

\* Upscale after wg.Wait() (the stderr goroutine has finished): getImageSize
\* and os.Stat of the output, then the Result literal
InspectOutput(w) ==
    /\ pc[w] = "wgWait"
    /\ ReaderFinished(reader[cur[w]])
    /\ \E readable \in BOOLEAN :
         IF fs[cur[w]].tmpOut # "none" /\ readable
         THEN /\ result' = [result EXCEPT ![w] = NewResult("tmpOut")]
              /\ UNCHANGED err
         ELSE /\ err' = [err EXCEPT ![w] = "failed to get output size"]
              /\ UNCHANGED result
    /\ pc' = [pc EXCEPT ![w] = "publish"]
    /\ UNCHANGED aux
    /\ UNCHANGED <<registry, cancelResp>>
    /\ UNCHANGED <<jobs, jobsMu, jobQueue, pending, cur, ctxErr, proc, reader,
                   fs, dl, cancelledAt, dequeued>>

(* ------------------------- publish and finalize ------------------------ *)
\* processJob: the guard of the publish block
ShouldPublish(e, r) == e = Nil /\ ~r.nil

\* mutant: processJob leaves the scratch path in the result
Published_ScratchPath(r) == r

\* processJob: result.OutputPath = origOutput
Published(r) == [r EXCEPT !.OutputPath = "out"]

\* processJob: move the scratch output to the requested path (rename, else
\* copy and remove), then os.Remove(tmpInput); when rename and copy both fail
\* the job takes the failure return, which skips the removal
Publish(w) ==
    /\ pc[w] = "publish"
    /\ LET id == cur[w] IN
       IF ShouldPublish(err[w], result[w])
       THEN \E renamed \in BOOLEAN :
              IF renamed
              THEN /\ fs' = [fs EXCEPT ![id].out = fs[id].tmpOut,
                                       ![id].tmpOut = "none",
                                       ![id].tmpIn = "none"]
                   /\ result' = [result EXCEPT ![w] = Published(@)]
                   /\ pc' = [pc EXCEPT ![w] = "final"]
                   /\ UNCHANGED err
              ELSE \E o \in CopyFileOutcomes(fs[id].tmpOut, fs[id].out) :
                     IF o.ok
                     THEN /\ fs' = [fs EXCEPT ![id].out = o.dst,
                                              ![id].tmpOut = "none",
                                              ![id].tmpIn = "none"]
                          /\ result' = [result EXCEPT ![w] = Published(@)]
                          /\ pc' = [pc EXCEPT ![w] = "final"]
                          /\ UNCHANGED err
                     ELSE /\ fs' = [fs EXCEPT ![id].out = o.dst]
                          /\ err' = [err EXCEPT ![w] =
                                       "failed to move output to final location"]
                          /\ pc' = [pc EXCEPT ![w] = "fail"]
                          /\ UNCHANGED result
       ELSE /\ fs' = [fs EXCEPT ![id].tmpIn = "none"]
            /\ pc' = [pc EXCEPT ![w] = "final"]
            /\ UNCHANGED <<err, result>>
    /\ UNCHANGED aux
    /\ UNCHANGED <<registry, cancelResp>>
    /\ UNCHANGED <<jobs, jobsMu, jobQueue, pending, cur, ctxErr, proc, reader,
                   dl, cancelledAt, dequeued>>

\* mutant: every error of a context that is done counts as a cancellation
FinalStatus_AnyCtxErr(status, e, ce) ==
    IF status = "cancelled" THEN "cancelled"
    ELSE IF e # Nil
         THEN IF CtxDone(ce) THEN "cancelled" ELSE "failed"
         ELSE "completed"

\* processJob, last critical section: the Status it writes first, or the
\* Status it finds when the job was already marked cancelled
FinalStatus(status, e, ce) ==
    IF status = "cancelled" THEN "cancelled"
    ELSE IF e # Nil
         THEN IF ce = "Canceled" THEN "cancelled" ELSE "failed"
         ELSE "completed"

\* processJob: lock, cancelFunc = nil, decide; the cancelled outcomes return
\* here, the failed and completed ones go on to write their other fields
Finalize(w) ==
    /\ pc[w] = "final"
    /\ jobsMu = Free
    /\ LET id == cur[w]
           st == FinalStatus(jobs[id].Status, err[w], ctxErr[id])
       IN /\ jobs' = [jobs EXCEPT ![id].cancelFunc = FALSE, ![id].Status = st]
          /\ IF st = "cancelled"
             THEN /\ pc' = [pc EXCEPT ![w] = "idle"]
                  /\ cur' = [cur EXCEPT ![w] = NoJob]
                  /\ err' = [err EXCEPT ![w] = Nil]
                  /\ result' = [result EXCEPT ![w] = NilResult]
                  /\ ctxErr' = [ctxErr EXCEPT ![id] = ReleaseCtx(@)]
                  /\ UNCHANGED jobsMu
             ELSE /\ pc' = [pc EXCEPT ![w] =
                              IF st = "failed" THEN "finalErr" ELSE "finalProgress"]
                  /\ jobsMu' = w
                  /\ UNCHANGED <<cur, err, result, ctxErr>>
    /\ UNCHANGED aux
    /\ UNCHANGED <<registry, cancelResp>>
    /\ UNCHANGED <<jobQueue, pending, proc, reader, fs, dl, cancelledAt,
                   dequeued>>

\* processJob: job.Error = err, unlock, return (deferred cancel)
FinalizeError(w) ==
    /\ pc[w] = "finalErr"
    /\ jobsMu = w
    /\ jobs' = [jobs EXCEPT ![cur[w]].Error = err[w]]
    /\ jobsMu' = Free
    /\ ctxErr' = [ctxErr EXCEPT ![cur[w]] = ReleaseCtx(@)]
    /\ pc' = [pc EXCEPT ![w] = "idle"]
    /\ cur' = [cur EXCEPT ![w] = NoJob]
    /\ err' = [err EXCEPT ![w] = Nil]
    /\ result' = [result EXCEPT ![w] = NilResult]
    /\ UNCHANGED aux
    /\ UNCHANGED <<registry, cancelResp>>
    /\ UNCHANGED <<jobQueue, pending, proc, reader, fs, dl,
                   cancelledAt, dequeued>>

\* processJob: job.Progress = 100
FinalizeProgress(w) ==
    /\ pc[w] = "finalProgress"
    /\ jobsMu = w
    /\ jobs' = [jobs EXCEPT ![cur[w]].Progress = CompletedProgress]
    /\ pc' = [pc EXCEPT ![w] = "finalResult"]
    /\ UNCHANGED aux
    /\ UNCHANGED <<registry, cancelResp>>
    /\ UNCHANGED <<jobsMu, jobQueue, pending, cur, err, result, ctxErr, proc,
                   reader, fs, dl, cancelledAt, dequeued>>

\* processJob: job.Result = result, unlock, return (deferred cancel)
FinalizeResult(w) ==
    /\ pc[w] = "finalResult"
    /\ jobsMu = w
    /\ jobs' = [jobs EXCEPT ![cur[w]].Result = result[w]]
    /\ jobsMu' = Free
    /\ ctxErr' = [ctxErr EXCEPT ![cur[w]] = ReleaseCtx(@)]
    /\ pc' = [pc EXCEPT ![w] = "idle"]
    /\ cur' = [cur EXCEPT ![w] = NoJob]
    /\ err' = [err EXCEPT ![w] = Nil]
    /\ result' = [result EXCEPT ![w] = NilResult]
    /\ UNCHANGED aux
    /\ UNCHANGED <<registry, cancelResp>>
    /\ UNCHANGED <<jobQueue, pending, proc, reader, fs, dl,
                   cancelledAt, dequeued>>

(* --------------------------- HandleDownload ---------------------------- *)
\* GetJob: the lookup under the mutex; it hands out the *Job itself and
\* changes nothing, so a handler that holds the pointer is a handler for
\* which this lookup succeeded at some earlier moment
GetJob(id) == id \in DOMAIN registry

\* HandleDownload: with the job from GetJob, reads job.Status without the
\* mutex; answers 400 unless it reads completed
DlReadStatus(id) ==
    /\ dl.pc = "idle"
    /\ GetJob(id)
    /\ dl' = IF jobs[registry[id]].Status # "completed"
             THEN DlIdle
             ELSE [pc |-> "result", job |-> registry[id]]
    /\ UNCHANGED aux
    /\ UNCHANGED <<registry, cancelResp>>
    /\ UNCHANGED <<jobs, jobsMu, jobQueue, pending, pc, cur, err, result,
                   ctxErr, proc, reader, fs, cancelledAt, dequeued>>

\* HandleDownload: having read Status completed, reads job.Result without the
\* mutex to build the path; job.Result.OutputPath on a nil Result panics,
\* otherwise the request goes on to the file and ends
DlReadResult ==
    /\ dl.pc = "result"
    /\ dl' = IF jobs[dl.job].Result.nil
             THEN [dl EXCEPT !.pc = "panic"]
             ELSE DlIdle
    /\ UNCHANGED aux
    /\ UNCHANGED <<registry, cancelResp>>
    /\ UNCHANGED <<jobs, jobsMu, jobQueue, pending, pc, cur, err, result,
                   ctxErr, proc, reader, fs, cancelledAt, dequeued>>

\* HandleDownload: the nil dereference is recovered and the request ends
DlRecover ==
    /\ dl.pc = "panic"
    /\ dl' = DlIdle
    /\ UNCHANGED aux
    /\ UNCHANGED <<registry, cancelResp>>
    /\ UNCHANGED <<jobs, jobsMu, jobQueue, pending, pc, cur, err, result,
                   ctxErr, proc, reader, fs, cancelledAt, dequeued>>

(* ------------------------- the cleanup routine ------------------------- *)
FileIds == 1..MaxFiles
Dirs == <<"upload", "output">>

\* the entry exists in its directory
Present(f) == f \in DOMAIN files /\ files[f].present

\* os.ReadDir returns the entries sorted by name
RECURSIVE SortedEntries(_)
SortedEntries(S) ==
    IF S = {} THEN <<>>
    ELSE LET m == CHOOSE x \in S : \A y \in S : x <= y
         IN <<m>> \o SortedEntries(S \ {m})

ReadDir(dir) == SortedEntries({f \in DOMAIN files : Present(f) /\ files[f].dir = dir})

\* SaveUpload, or the publish of an output: a new file, modified now
WriteFile(dir) ==
    /\ Cardinality(DOMAIN files) < MaxFiles
    /\ files' = files @@ (Cardinality(DOMAIN files) + 1 :>
                            [dir |-> dir, mtime |-> clock, present |-> TRUE])
    /\ UNCHANGED <<clock, ticker, sweeper, modelsDir, modelsResp, retention,
                   served, deleters, dlResp>>
    /\ UNCHANGED upload
    /\ UNCHANGED <<jobs, registry, jobsMu, jobQueue, pending, pc, cur, err,
                   result, ctxErr, proc, reader, fs, dl, cancelResp,
                   cancelledAt, dequeued>>

\* a minute passes: time.NewTicker(1 * time.Minute) sends on ticker.C, whose
\* buffer holds one tick (a tick that finds it full is dropped)
Tick ==
    /\ clock < MaxClock
    /\ clock' = clock + 1
    /\ ticker' = 1
    /\ UNCHANGED <<files, sweeper, modelsDir, modelsResp, retention, served,
                   deleters, dlResp>>
    /\ UNCHANGED upload
    /\ UNCHANGED <<jobs, registry, jobsMu, jobQueue, pending, pc, cur, err,
                   result, ctxErr, proc, reader, fs, dl, cancelResp,
                   cancelledAt, dequeued>>

\* CleanupOldFiles: cutoff := time.Now().Add(-CleanupTTL)
Cutoff(now) == now - CleanupTTL

\* mutant: the sweeper also removes an entry modified exactly at the cutoff
Before_OrAt(t, cutoff) == t <= cutoff

\* info.ModTime().Before(cutoff)
Before(t, cutoff) == t < cutoff

\* for range ticker.C: a tick arrives, CleanupOldFiles begins
SweepStart ==
    /\ sweeper.pc = "wait"
    /\ ticker = 1
    /\ ticker' = 0
    /\ sweeper' = [sweeper EXCEPT
         !.pc = "list", !.cutoff = Cutoff(clock), !.dirs = Dirs,
         !.entries = <<>>, !.ran = TRUE,
         !.aged = {f \in DOMAIN files :
                     Present(f) /\ files[f].mtime < clock - CleanupTTL},
         !.removed = {}, !.statFailed = {}, !.deleteFailed = {},
         !.listFailed = FALSE,
         !.failedBefore = sweeper.failedBefore \cup sweeper.deleteFailed]
    /\ UNCHANGED <<clock, files, modelsDir, modelsResp, retention, served,
                   deleters, dlResp>>
    /\ UNCHANGED upload
    /\ UNCHANGED <<jobs, registry, jobsMu, jobQueue, pending, pc, cur, err,
                   result, ctxErr, proc, reader, fs, dl, cancelResp,
                   cancelledAt, dequeued>>

\* mutant: a directory that cannot be listed is skipped and the run goes on
\* with the next one
SweepList_SkipDir(listed) ==
    /\ sweeper.pc = "list"
    /\ sweeper' =
         IF sweeper.dirs = <<>>
         THEN [sweeper EXCEPT !.pc = "wait"]
         ELSE IF listed
         THEN [sweeper EXCEPT !.pc = "entry",
                              !.entries = ReadDir(Head(sweeper.dirs))]
         ELSE [sweeper EXCEPT !.listFailed = TRUE, !.dirs = Tail(@)]
    /\ UNCHANGED <<clock, files, ticker, modelsDir, modelsResp, retention,
                   served, deleters, dlResp>>
    /\ UNCHANGED upload
    /\ UNCHANGED <<jobs, registry, jobsMu, jobQueue, pending, pc, cur, err,
                   result, ctxErr, proc, reader, fs, dl, cancelResp,
                   cancelledAt, dequeued>>

\* CleanupOldFiles / cleanupDir: os.ReadDir of the next directory; when it
\* fails CleanupOldFiles returns the error, when no directory is left it
\* returns nil; the routine logs and waits for the next tick
SweepList(listed) ==
    /\ sweeper.pc = "list"
    /\ sweeper' =
         IF sweeper.dirs = <<>>
         THEN [sweeper EXCEPT !.pc = "wait"]
         ELSE IF listed
         THEN [sweeper EXCEPT !.pc = "entry",
                              !.entries = ReadDir(Head(sweeper.dirs))]
         ELSE [sweeper EXCEPT !.pc = "wait", !.listFailed = TRUE,
                              !.dirs = <<>>]
    /\ UNCHANGED <<clock, files, ticker, modelsDir, modelsResp, retention,
                   served, deleters, dlResp>>
    /\ UNCHANGED upload
    /\ UNCHANGED <<jobs, registry, jobsMu, jobQueue, pending, pc, cur, err,
                   result, ctxErr, proc, reader, fs, dl, cancelResp,
                   cancelledAt, dequeued>>

\* mutant: a failure on one entry ends the sweep of the directory
RestAfterFailure_Abort(entries) == <<>>

\* cleanupDir: after a failed stat (continue) or a failed removal (log),
\* the loop goes on with the entries that are left
RestAfterFailure(entries) == Tail(entries)

\* cleanupDir, one turn of the loop: entry.Info(), the age test, os.Remove
SweepEntry(statOk, removeOk) ==
    /\ sweeper.pc = "entry"
    /\ IF sweeper.entries = <<>>
       THEN /\ sweeper' = [sweeper EXCEPT !.pc = "list", !.dirs = Tail(@)]
            /\ UNCHANGED files
       ELSE LET f == Head(sweeper.entries) IN
            IF ~statOk
            THEN /\ sweeper' = [sweeper EXCEPT
                      !.entries = RestAfterFailure(@),
                      !.statFailed = @ \cup {f}]
                 /\ UNCHANGED files
            ELSE IF ~Before(files[f].mtime, sweeper.cutoff)
            THEN /\ sweeper' = [sweeper EXCEPT !.entries = Tail(@)]
                 /\ UNCHANGED files
            ELSE IF removeOk
            THEN /\ files' = [files EXCEPT ![f].present = FALSE]
                 /\ sweeper' = [sweeper EXCEPT !.entries = Tail(@),
                                               !.removed = @ \cup {f}]
            ELSE /\ sweeper' = [sweeper EXCEPT
                      !.entries = RestAfterFailure(@),
                      !.deleteFailed = @ \cup {f}]
                 /\ UNCHANGED files
    /\ UNCHANGED <<clock, ticker, modelsDir, modelsResp, retention, served,
                   deleters, dlResp>>
    /\ UNCHANGED upload
    /\ UNCHANGED <<jobs, registry, jobsMu, jobQueue, pending, pc, cur, err,
                   result, ctxErr, proc, reader, fs, dl, cancelResp,
                   cancelledAt, dequeued>>

InitSweep ==
    /\ InitJobs(JobIds)
    /\ StorageInit
    /\ ModelsInit(<<>>)
    /\ DownloadInit("keep")

NextSweep ==
    \/ \E dir \in {"upload", "output"} : WriteFile(dir)
    \/ Tick
    \/ SweepStart
    \/ \E listed \in BOOLEAN : SweepList(listed)
    \/ \E statOk \in BOOLEAN, removeOk \in BOOLEAN : SweepEntry(statOk, removeOk)

SpecSweep == InitSweep /\ [][NextSweep]_vars

(* ---------------------------- specification ---------------------------- *)
Next ==
    \/ \E s \in ScaleValues, now \in LaterReadings, inputExists \in BOOLEAN :
          SubmitJob([Scale |-> s], now, inputExists)
    \/ \E id \in JobIds : Enqueue(id)
    \/ \E id \in KnownIDs(JobIds) : CancelJob(id)
    \/ \E id \in KnownIDs(JobIds) : CancelJobNoop(id)
    \/ \E w \in Workers : Dequeue(w)
    \/ \E w \in Workers : ClaimJob(w)
    \/ \E w \in Workers : ClaimSetup(w)
    \/ \E w \in Workers : StageInput(w)
    \/ \E w \in Workers : FailStatus(w)
    \/ \E w \in Workers : FailError(w)
    \/ \E w \in Workers : UpscaleStart(w)
    \/ \E id \in JobIds : Deadline(id)
    \/ \E id \in JobIds : ProcWrite(id)
    \/ \E id \in JobIds, zero \in BOOLEAN : ProcExit(id, zero)
    \/ \E id \in JobIds : ProcKill(id)
    \/ \E id \in JobIds, p \in ProgressValues : OnProgress(id, p)
    \/ \E id \in JobIds : ReaderEOF(id)
    \/ \E w \in Workers : CmdWait(w)
    \/ \E w \in Workers : InspectOutput(w)
    \/ \E w \in Workers : Publish(w)
    \/ \E w \in Workers : Finalize(w)
    \/ \E w \in Workers : FinalizeError(w)
    \/ \E w \in Workers : FinalizeProgress(w)
    \/ \E w \in Workers : FinalizeResult(w)
    \/ \E id \in KnownIDs(JobIds) : DlReadStatus(id)
    \/ DlReadResult
    \/ DlRecover

Spec == Init /\ [][Next]_vars


(* ---------------- specifications with a quiet environment -------------- *)
(* In SpecPool and SpecCancel the file system and the subprocess do not     *)
(* fail, the deadline does not pass, nothing is printed or downloaded: a    *)
(* job fails only for its scale and a subprocess ends early only when it is *)
(* killed.  SpecPool explores more submissions than there are workers and   *)
(* queue slots, with clock readings that may repeat.  SpecCancel explores   *)
(* HandleCancel and keeps its answers.  Spec itself explores submissions    *)
(* made at distinct clock readings, so that a job ID names one Job object.  *)

\* staging succeeds
StageInputQuiet(w) == StageInput(w) /\ pc'[w] = "upscale"

\* binary and model are found; Start fails only on a context that is done
UpscaleStartQuiet(w) ==
    /\ UpscaleStart(w)
    /\ err'[w] = "validation failed" <=> ~ScaleValid(jobs[cur[w]].Request.Scale)
    /\ err'[w] = "failed to start command" => CtxDone(ctxErr[cur[w]])

\* the subprocess exits zero, after it has written its output
ProcExitQuiet(id) == ProcExit(id, TRUE) /\ fs[id].tmpOut = "full"

\* the output is readable
InspectOutputQuiet(w) == InspectOutput(w) /\ err'[w] = Nil

\* the move to the requested path succeeds
PublishQuiet(w) == Publish(w) /\ pc'[w] = "final"

InitPool == InitFor(PoolJobIds)

NextPool ==
    \/ \E now \in ClockReadings : SubmitJob([Scale |-> MaxScale], now, TRUE)
    \/ \E id \in PoolJobIds : Enqueue(id)
    \/ \E w \in Workers : Dequeue(w)
    \/ \E w \in Workers : ClaimJob(w)
    \/ \E w \in Workers : ClaimSetup(w)
    \/ \E w \in Workers : StageInputQuiet(w)
    \/ \E w \in Workers : UpscaleStartQuiet(w)
    \/ \E id \in PoolJobIds : ProcWrite(id)
    \/ \E id \in PoolJobIds : ProcExitQuiet(id)
    \/ \E id \in PoolJobIds : ReaderEOF(id)
    \/ \E w \in Workers : CmdWait(w)
    \/ \E w \in Workers : InspectOutputQuiet(w)
    \/ \E w \in Workers : PublishQuiet(w)
    \/ \E w \in Workers : Finalize(w)
    \/ \E w \in Workers : FinalizeProgress(w)
    \/ \E w \in Workers : FinalizeResult(w)

SpecPool == InitPool /\ [][NextPool]_vars

NextCancel ==
    \/ \E s \in ScaleValues, now \in LaterReadings :
          SubmitJob([Scale |-> s], now, TRUE)
    \/ \E id \in JobIds : Enqueue(id)
    \/ \E id \in KnownIDs(JobIds) : HandleCancel(id)
    \/ \E w \in Workers : Dequeue(w)
    \/ \E w \in Workers : ClaimJob(w)
    \/ \E w \in Workers : ClaimSetup(w)
    \/ \E w \in Workers : StageInputQuiet(w)
    \/ \E w \in Workers : UpscaleStartQuiet(w)
    \/ \E id \in JobIds : ProcWrite(id)
    \/ \E id \in JobIds : ProcExitQuiet(id)
    \/ \E id \in JobIds : ProcKill(id)
    \/ \E id \in JobIds : ReaderEOF(id)
    \/ \E w \in Workers : CmdWait(w)
    \/ \E w \in Workers : InspectOutputQuiet(w)
    \/ \E w \in Workers : PublishQuiet(w)
    \/ \E w \in Workers : Finalize(w)
    \/ \E w \in Workers : FinalizeError(w)
    \/ \E w \in Workers : FinalizeProgress(w)
    \/ \E w \in Workers : FinalizeResult(w)

SpecCancel == Init /\ [][NextCancel]_vars


(* --------------------------- several workers --------------------------- *)
(* SpecMulti explores MultiJobs jobs of a quiet environment on             *)
(* MultiWorkers workers.  Any job may fail for its scale; CancelJob is     *)
(* explored, at any moment, for the first job, the others run their course.*)
InitMulti ==
    /\ InitEngine(MultiJobIds, MultiWorkerIds)
    /\ StorageInit
    /\ ModelsInit(<<>>)
    /\ DownloadInit("keep")

NextMulti ==
    \/ \E s \in ScaleValues, now \in LaterReadings :
          SubmitJob([Scale |-> s], now, TRUE)
    \/ \E id \in MultiJobIds : Enqueue(id)
    \/ \E id \in KnownIDs({1}) : CancelJob(id)
    \/ \E w \in MultiWorkerIds : Dequeue(w)
    \/ \E w \in MultiWorkerIds : ClaimJob(w)
    \/ \E w \in MultiWorkerIds : ClaimSetup(w)
    \/ \E w \in MultiWorkerIds : StageInputQuiet(w)
    \/ \E w \in MultiWorkerIds : UpscaleStartQuiet(w)
    \/ \E id \in MultiJobIds : ProcWrite(id)
    \/ \E id \in MultiJobIds : ProcExitQuiet(id)
    \/ \E id \in MultiJobIds : ProcKill(id)
    \/ \E id \in MultiJobIds : ReaderEOF(id)
    \/ \E w \in MultiWorkerIds : CmdWait(w)
    \/ \E w \in MultiWorkerIds : InspectOutputQuiet(w)
    \/ \E w \in MultiWorkerIds : PublishQuiet(w)
    \/ \E w \in MultiWorkerIds : Finalize(w)
    \/ \E w \in MultiWorkerIds : FinalizeError(w)
    \/ \E w \in MultiWorkerIds : FinalizeProgress(w)
    \/ \E w \in MultiWorkerIds : FinalizeResult(w)

SpecMulti == InitMulti /\ [][NextMulti]_vars


(* ----------------------------- fair scheduling ------------------------- *)
(* SpecLive is the pool of SpecPool, at distinct clock readings, with      *)
(* CancelJob at any moment and with contexts whose deadline may pass and   *)
(* whose subprocess is then killed, under the scheduling Go guarantees:    *)
(* every goroutine that can take a step eventually takes one (each worker, *)
(* each send goroutine of SubmitJob, each stderr reader), and under the    *)
(* assumption that a subprocess exits or is killed at the deadline.        *)
(* Callers are not scheduled: no SubmitJob or CancelJob has to happen.     *)

\* one step of worker w, whatever it is
WorkerStep(w) ==
    \/ Dequeue(w)
    \/ ClaimJob(w)
    \/ ClaimSetup(w)
    \/ StageInputQuiet(w)
    \/ UpscaleStartQuiet(w)
    \/ CmdWait(w)
    \/ InspectOutputQuiet(w)
    \/ PublishQuiet(w)
    \/ Finalize(w)
    \/ FinalizeError(w)
    \/ FinalizeProgress(w)
    \/ FinalizeResult(w)

\* the subprocess of the job ends: it exits, or the deadline passes and
\* exec.CommandContext kills it
SubprocessEnds(id) ==
    \/ ProcExitQuiet(id)
    \/ Deadline(id)
    \/ ProcKill(id)

NextLive ==
    \/ \E now \in LaterReadings : SubmitJob([Scale |-> MaxScale], now, TRUE)
    \/ \E id \in PoolJobIds : Enqueue(id)
    \/ \E id \in KnownIDs(PoolJobIds) : CancelJob(id)
    \/ \E w \in Workers : WorkerStep(w)
    \/ \E id \in PoolJobIds : ProcWrite(id)
    \/ \E id \in PoolJobIds : SubprocessEnds(id)
    \/ \E id \in PoolJobIds : ReaderEOF(id)

Fairness ==
    /\ \A w \in Workers : WF_vars(WorkerStep(w))
    /\ \A id \in PoolJobIds : WF_vars(Enqueue(id))
    /\ \A id \in PoolJobIds : WF_vars(SubprocessEnds(id))
    /\ \A id \in PoolJobIds : WF_vars(ReaderEOF(id))

SpecLive == InitPool /\ [][NextLive]_vars /\ Fairness


(* ------------------- HandleDownload, with its answers ------------------ *)
(* SpecDownload explores the whole of HandleDownload for the job of a      *)
(* quiet environment that may be cancelled: the answer of each request is  *)
(* kept in dlResp, the requests that sent the file are counted in served,  *)
(* and the goroutine that deletes the file after a download is a process   *)
(* of its own.                                                             *)
RetentionPolicies == {"keep", "delete_after_download"}

\* ShouldDeleteAfterDownload
ShouldDeleteAfterDownload == retention = "delete_after_download"

\* the requests for the job that have sent the file
Served(job) == IF job \in DOMAIN served THEN served[job] ELSE 0

\* mutant: HandleDownload does not look at the Status
Downloadable_Always(status) == TRUE

\* HandleDownload: job.Status != "completed" answers 400
Downloadable(status) == status = "completed"

\* HandleDownload up to the Status check: 404 on an unknown ID, 400 on a
\* job that is not completed, else on to the file
DlRequest(id) ==
    /\ dl.pc = "idle"
    /\ IF ~GetJob(id)
       THEN /\ dlResp' = [answer |-> "job not found", job |-> NoJob,
                          status |-> "none"]
            /\ UNCHANGED dl
       ELSE LET job == registry[id] IN
            /\ Served(job) < MaxDownloads
            /\ IF Downloadable(jobs[job].Status)
               THEN /\ dl' = [pc |-> "result", job |-> job]
                    /\ UNCHANGED dlResp
               ELSE /\ dlResp' = [answer |-> "job not completed", job |-> job,
                                  status |-> jobs[job].Status]
                    /\ UNCHANGED dl
    /\ UNCHANGED <<clock, files, ticker, sweeper, modelsDir, modelsResp,
                   retention, served, deleters>>
    /\ UNCHANGED upload
    /\ UNCHANGED <<jobs, registry, jobsMu, jobQueue, pending, pc, cur, err,
                   result, ctxErr, proc, reader, fs, cancelResp, cancelledAt,
                   dequeued>>

\* HandleDownload from the existence check on: job.Result.OutputPath panics
\* on a nil Result (gin.Recovery answers 500); 404 when the file is missing;
\* else the file is streamed and, under delete_after_download, the goroutine
\* that will delete it is started
DlServe ==
    /\ dl.pc = "result"
    /\ LET job == dl.job
           st == jobs[job].Status
       IN IF jobs[job].Result.nil
          THEN /\ dlResp' = [answer |-> "panic", job |-> job, status |-> st]
               /\ UNCHANGED <<served, deleters>>
          ELSE IF fs[job].out = "none"
          THEN /\ dlResp' = [answer |-> "output file missing", job |-> job,
                             status |-> st]
               /\ UNCHANGED <<served, deleters>>
          ELSE /\ dlResp' = [answer |-> "file", job |-> job, status |-> st]
               /\ served' = (job :> Served(job) + 1) @@ served
               /\ deleters' = IF ShouldDeleteAfterDownload
                              THEN deleters \cup {job} ELSE deleters
    /\ dl' = DlIdle
    /\ UNCHANGED <<clock, files, ticker, sweeper, modelsDir, modelsResp,
                   retention>>
    /\ UNCHANGED upload
    /\ UNCHANGED <<jobs, registry, jobsMu, jobQueue, pending, pc, cur, err,
                   result, ctxErr, proc, reader, fs, cancelResp, cancelledAt,
                   dequeued>>

\* mutant: the goroutine that deletes the file also drops the job from the
\* registry
DlDelete_Unregister(job, removed) ==
    /\ job \in deleters
    /\ deleters' = deleters \ {job}
    /\ fs' = IF removed THEN [fs EXCEPT ![job].out = "none"] ELSE fs
    /\ registry' = [id \in DOMAIN registry \ {jobs[job].ID} |-> registry[id]]
    /\ UNCHANGED <<clock, files, ticker, sweeper, modelsDir, modelsResp,
                   retention, served, dlResp>>
    /\ UNCHANGED upload
    /\ UNCHANGED <<jobs, jobsMu, jobQueue, pending, pc, cur, err,
                   result, ctxErr, proc, reader, dl, cancelResp, cancelledAt,
                   dequeued>>

\* the goroutine started by HandleDownload: after time.Sleep(1 * time.Second)
\* DeleteFile(job.Result.OutputPath), whose failure is only printed
DlDelete(job, removed) ==
    /\ job \in deleters
    /\ deleters' = deleters \ {job}
    /\ fs' = IF removed THEN [fs EXCEPT ![job].out = "none"] ELSE fs
    /\ UNCHANGED <<clock, files, ticker, sweeper, modelsDir, modelsResp,
                   retention, served, dlResp>>
    /\ UNCHANGED upload
    /\ UNCHANGED <<jobs, registry, jobsMu, jobQueue, pending, pc, cur, err,
                   result, ctxErr, proc, reader, dl, cancelResp, cancelledAt,
                   dequeued>>

InitDownload ==
    /\ InitJobs(JobIds)
    /\ StorageInit
    /\ ModelsInit(<<>>)
    /\ \E policy \in RetentionPolicies : DownloadInit(policy)

NextDownload ==
    \/ \E s \in ScaleValues, now \in LaterReadings :
          SubmitJob([Scale |-> s], now, TRUE)
    \/ \E id \in JobIds : Enqueue(id)
    \/ \E id \in KnownIDs(JobIds) : CancelJob(id)
    \/ \E w \in Workers : Dequeue(w)
    \/ \E w \in Workers : ClaimJob(w)
    \/ \E w \in Workers : ClaimSetup(w)
    \/ \E w \in Workers : StageInputQuiet(w)
    \/ \E w \in Workers : UpscaleStartQuiet(w)
    \/ \E id \in JobIds : ProcWrite(id)
    \/ \E id \in JobIds : ProcExitQuiet(id)
    \/ \E id \in JobIds : ProcKill(id)
    \/ \E id \in JobIds : ReaderEOF(id)
    \/ \E w \in Workers : CmdWait(w)
    \/ \E w \in Workers : InspectOutputQuiet(w)
    \/ \E w \in Workers : PublishQuiet(w)
    \/ \E w \in Workers : Finalize(w)
    \/ \E w \in Workers : FinalizeError(w)
    \/ \E w \in Workers : FinalizeProgress(w)
    \/ \E w \in Workers : FinalizeResult(w)
    \/ \E id \in KnownIDs(JobIds \cup {MaxJobs + 1}) : DlRequest(id)
    \/ DlServe
    \/ \E job \in JobIds, removed \in BOOLEAN : DlDelete(job, removed)

SpecDownload == InitDownload /\ [][NextDownload]_vars


(* ----------------------------- HandleModels ---------------------------- *)
(* A file name is the sequence of its parts between the dots, so that      *)
(* "custom.param" is <<"custom", "param">>.                                *)
ModelFileNames ==
    {<<"realesrgan-x4plus-anime", "param">>, <<"realesrgan-x4plus-anime", "bin">>,
     <<"custom", "param">>, <<"custom", "bin">>, <<"custom">>,
     <<"notes", "md">>}

DirEntries == [name : ModelFileNames, isDir : BOOLEAN]

\* what os.ReadDir(ModelsPath) may return: entries with distinct names
DirListings ==
    UNION {{s \in [1..n -> DirEntries] :
              \A i \in 1..n, j \in 1..n : i # j => s[i].name # s[j].name} :
           n \in 0..ModelFiles}

\* the ?scale= parameter: absent or empty, not a number, or a number
ScaleQueries ==
    {NoQuery, [given |-> TRUE, parsed |-> FALSE, scale |-> 0]}
      \cup {[given |-> TRUE, parsed |-> TRUE, scale |-> n] : n \in 1..(MaxScale + 1)}

\* filepath.Ext: the suffix beginning at the last dot, empty without a dot
Ext(name) == IF Len(name) > 1 THEN name[Len(name)] ELSE ""

\* name[0 : len(name)-len(ext)]
StripExt(name) == IF Len(name) > 1 THEN SubSeq(name, 1, Len(name) - 1) ELSE name

\* GetAvailableModels: a directory, or a .param or .bin file
IsModelEntry(entry) == entry.isDir \/ Ext(entry.name) \in {"param", "bin"}

\* GetAvailableModels: the model an entry stands for
ModelName(entry) == IF entry.isDir THEN entry.name ELSE StripExt(entry.name)

\* GetAvailableModels: {2, 3, 4}, and {4} for realesrgan-x4plus-anime
SupportedScales(modelName) ==
    IF modelName = <<"realesrgan-x4plus-anime">> THEN {4} ELSE MinScale..MaxScale

\* mutant: a model name is not remembered
MarkSeen_Forget(seen, modelName) == seen

\* GetAvailableModels: seen[modelName] = true
MarkSeen(seen, modelName) == seen \cup {modelName}

\* GetAvailableModels: the loop over the entries
RECURSIVE ScanModels(_, _)
ScanModels(entries, seen) ==
    IF entries = <<>> THEN <<>>
    ELSE LET entry == Head(entries)
             modelName == ModelName(entry)
         IN IF ~IsModelEntry(entry) \/ modelName \in seen
            THEN ScanModels(Tail(entries), seen)
            ELSE <<[Name |-> modelName,
                    SupportedScales |-> SupportedScales(modelName)]>>
                   \o ScanModels(Tail(entries), MarkSeen(seen, modelName))

GetAvailableModels == ScanModels(modelsDir, {})

\* HandleModels: the models whose SupportedScales hold the scale
FilterByScale(models, scale) ==
    SelectSeq(models, LAMBDA m : scale \in m.SupportedScales)

\* HandleModels: 500 when the directory cannot be listed; the list is
\* filtered when the scale parameter is given and Sscanf reads a number
HandleModels(query, listed) ==
    /\ modelsResp' =
         IF ~listed
         THEN [status |-> 500, models |-> <<>>, query |-> query]
         ELSE [status |-> 200,
               models |-> IF query.given /\ query.parsed
                          THEN FilterByScale(GetAvailableModels, query.scale)
                          ELSE GetAvailableModels,
               query |-> query]
    /\ UNCHANGED <<clock, files, ticker, sweeper, modelsDir, retention,
                   served, deleters, dlResp>>
    /\ UNCHANGED upload
    /\ UNCHANGED <<jobs, registry, jobsMu, jobQueue, pending, pc, cur, err,
                   result, ctxErr, proc, reader, fs, dl, cancelResp,
                   cancelledAt, dequeued>>

InitModels ==
    /\ InitJobs(JobIds)
    /\ StorageInit
    /\ \E dir \in DirListings : ModelsInit(dir)
    /\ DownloadInit("keep")

NextModels ==
    \E query \in ScaleQueries, listed \in BOOLEAN : HandleModels(query, listed)

SpecModels == InitModels /\ [][NextModels]_vars


(* ------------------------- a saturated pool ---------------------------- *)
(* SpecBusy is the pool of SpecPool at distinct clock readings, with       *)
(* CancelJob calls on the first job, calls that change nothing on any ID,  *)
(* subprocesses that print, exit or are killed, and a temp directory that  *)
(* may be impossible to create, so that the critical sections of           *)
(* processJob are entered: the claim, the failure return and the final one. *)

\* staging succeeds, or the temp directory cannot be created
StageInputOrNoTmpDir(w) ==
    /\ StageInput(w)
    /\ pc'[w] = "upscale" \/ err'[w] = "failed to create temp dir"

NextBusy ==
    \/ \E now \in LaterReadings : SubmitJob([Scale |-> MaxScale], now, TRUE)
    \/ \E id \in PoolJobIds : Enqueue(id)
    \/ \E id \in KnownIDs({1}) : CancelJob(id)
    \/ \E id \in KnownIDs(PoolJobIds) : CancelJobNoop(id)
    \/ \E w \in Workers : Dequeue(w)
    \/ \E w \in Workers : ClaimJob(w)
    \/ \E w \in Workers : ClaimSetup(w)
    \/ \E w \in Workers : StageInputOrNoTmpDir(w)
    \/ \E w \in Workers : FailStatus(w)
    \/ \E w \in Workers : FailError(w)
    \/ \E w \in Workers : UpscaleStartQuiet(w)
    \/ \E id \in PoolJobIds : ProcWrite(id)
    \/ \E id \in PoolJobIds : ProcExitQuiet(id)
    \/ \E id \in PoolJobIds : ProcKill(id)
    \/ \E id \in PoolJobIds : ReaderEOF(id)
    \/ \E w \in Workers : CmdWait(w)
    \/ \E w \in Workers : InspectOutputQuiet(w)
    \/ \E w \in Workers : PublishQuiet(w)
    \/ \E w \in Workers : Finalize(w)
    \/ \E w \in Workers : FinalizeProgress(w)
    \/ \E w \in Workers : FinalizeResult(w)

SpecBusy == InitPool /\ [][NextBusy]_vars


(* ------------------------ admission to the queue ----------------------- *)
(* SpecAdmit is the pool of SpecPool at distinct clock readings, with      *)
(* CancelJob calls on the first job, under the scheduling of SpecLive:     *)
(* every worker, send goroutine and stderr reader that can take a step     *)
(* eventually takes one, and a subprocess runs to its end or is killed.    *)
(* Callers are not scheduled.                                              *)

\* one step of worker w in a quiet environment
QuietStep(w) ==
    \/ Dequeue(w)
    \/ ClaimJob(w)
    \/ ClaimSetup(w)
    \/ StageInputQuiet(w)
    \/ UpscaleStartQuiet(w)
    \/ CmdWait(w)
    \/ InspectOutputQuiet(w)
    \/ PublishQuiet(w)
    \/ Finalize(w)
    \/ FinalizeProgress(w)
    \/ FinalizeResult(w)

\* the subprocess of the job runs: it writes its output and exits, or is
\* killed once its context is cancelled
SubprocessRuns(id) ==
    \/ ProcWrite(id)
    \/ ProcExitQuiet(id)
    \/ ProcKill(id)

NextAdmit ==
    \/ \E now \in LaterReadings : SubmitJob([Scale |-> MaxScale], now, TRUE)
    \/ \E id \in PoolJobIds : Enqueue(id)
    \/ \E id \in KnownIDs({1}) : CancelJob(id)
    \/ \E w \in Workers : QuietStep(w)
    \/ \E id \in PoolJobIds : SubprocessRuns(id)
    \/ \E id \in PoolJobIds : ReaderEOF(id)

FairnessAdmit ==
    /\ \A w \in Workers : WF_vars(QuietStep(w))
    /\ \A id \in PoolJobIds : WF_vars(Enqueue(id))
    /\ \A id \in PoolJobIds : WF_vars(SubprocessRuns(id))
    /\ \A id \in PoolJobIds : WF_vars(ReaderEOF(id))

SpecAdmit == InitPool /\ [][NextAdmit]_vars /\ FairnessAdmit


(* ------------------------------ SaveUpload ----------------------------- *)
(* SpecUpload explores SaveUpload alone: a Manager configured with any     *)
(* limit up to MaxLimitMB is handed uploads whose length is a whole number *)
(* of megabytes or one byte next to it, and os.WriteFile may fail.         *)

\* the divisor of SaveUpload
MiB == 1024 * 1024

\* sizeMB := int64(len(data)) / (1024 * 1024), a division that truncates
SizeMB(len) == len \div MiB

\* SaveUpload: the upload is refused
TooLarge(len, maxMB) == SizeMB(len) > maxMB

\* the lengths of data handed to SaveUpload
UploadSizes ==
    {n \in {k * MiB + d : k \in 0..(MaxLimitMB + 1), d \in {-1, 0, 1}} : n >= 0}

\* SaveUpload(filename, data): the size check, then os.WriteFile, which on
\* failure may or may not have created the file
SaveUpload(len, writeOk, created) ==
    /\ Cardinality(DOMAIN files) < MaxFiles
    /\ writeOk => created
    /\ LET write == ~TooLarge(len, upload.maxMB) /\ created IN
        /\ upload' = [upload EXCEPT
                        !.called = TRUE,
                        !.size = len,
                        !.error = IF TooLarge(len, upload.maxMB)
                                  THEN "file too large"
                                  ELSE IF writeOk THEN Nil
                                  ELSE "failed to save file",
                        !.written = write]
        /\ files' = IF write
                    THEN files @@ (Cardinality(DOMAIN files) + 1 :>
                           [dir |-> "upload", mtime |-> clock, present |-> TRUE])
                    ELSE files
    /\ UNCHANGED <<clock, ticker, sweeper, modelsDir, modelsResp, retention,
                   served, deleters, dlResp>>
    /\ UNCHANGED <<jobs, registry, jobsMu, jobQueue, pending, pc, cur, err,
                   result, ctxErr, proc, reader, fs, dl, cancelResp,
                   cancelledAt, dequeued>>

InitUpload ==
    /\ InitJobs(JobIds)
    /\ \E maxMB \in 0..MaxLimitMB : StorageConfigured(maxMB)
    /\ ModelsInit(<<>>)
    /\ DownloadInit("keep")

NextUpload ==
    \E len \in UploadSizes, writeOk \in BOOLEAN, created \in BOOLEAN :
       SaveUpload(len, writeOk, created)

SpecUpload == InitUpload /\ [][NextUpload]_vars


(* ----------------------------- the deadline ---------------------------- *)
(* SpecDeadline explores contexts whose deadline passes at any moment of   *)
(* processJob, for jobs that HandleCancel may cancel: the subprocess prints, *)
(* exits or is killed, and the temp directory may be impossible to create. *)
NextDeadline ==
    \/ \E now \in LaterReadings : SubmitJob([Scale |-> MaxScale], now, TRUE)
    \/ \E id \in JobIds : Enqueue(id)
    \/ \E id \in KnownIDs(JobIds) : HandleCancel(id)
    \/ \E w \in Workers : Dequeue(w)
    \/ \E w \in Workers : ClaimJob(w)
    \/ \E w \in Workers : ClaimSetup(w)
    \/ \E w \in Workers : StageInputOrNoTmpDir(w)
    \/ \E w \in Workers : FailStatus(w)
    \/ \E w \in Workers : FailError(w)
    \/ \E w \in Workers : UpscaleStartQuiet(w)
    \/ \E id \in JobIds : Deadline(id)
    \/ \E id \in JobIds : ProcWrite(id)
    \/ \E id \in JobIds : ProcExitQuiet(id)
    \/ \E id \in JobIds : ProcKill(id)
    \/ \E id \in JobIds : ReaderEOF(id)
    \/ \E w \in Workers : CmdWait(w)
    \/ \E w \in Workers : InspectOutputQuiet(w)
    \/ \E w \in Workers : PublishQuiet(w)
    \/ \E w \in Workers : Finalize(w)
    \/ \E w \in Workers : FinalizeError(w)
    \/ \E w \in Workers : FinalizeProgress(w)
    \/ \E w \in Workers : FinalizeResult(w)

SpecDeadline == Init /\ [][NextDeadline]_vars


(* ------------------- the sweeper and the queued jobs ------------------- *)
(* SpecStale joins the upload directory to the job engine: the handler     *)
(* saves the upload, then submits the job whose InputPath is that file, so *)
(* the k-th entry of the directory is the input of the k-th job.  Minutes  *)
(* pass, and the cleanup routine removes an upload once it is older than   *)
(* the TTL, whatever the job is doing.  Apart from that the environment is *)
(* quiet; the first job may be cancelled at any moment.  Workers, send     *)
(* goroutines, readers and subprocesses are scheduled fairly, callers and  *)
(* the clock are not.                                                      *)

\* HandleUpscale: SaveUpload for the next job
SaveUploadOfJob ==
    /\ Cardinality(DOMAIN files) = Cardinality(DOMAIN jobs)
    /\ NewHandle \in DOMAIN fs
    /\ WriteFile("upload")

\* HandleUpscale: SubmitJob with the path SaveUpload returned
SubmitUploaded(now) ==
    /\ Cardinality(DOMAIN files) = NewHandle
    /\ SubmitJob([Scale |-> MaxScale], now, Present(NewHandle))

\* cleanupDir in a run of CleanupOldFiles: the upload of the job is older
\* than the cutoff and os.Remove deletes it; no job is looked at
SweepInput(job) ==
    /\ Present(job)
    /\ files[job].dir = "upload"
    /\ Before(files[job].mtime, Cutoff(clock))
    /\ files' = [files EXCEPT ![job].present = FALSE]
    /\ fs' = [fs EXCEPT ![job].input = "none"]
    /\ UNCHANGED <<clock, ticker, sweeper, modelsDir, modelsResp, retention,
                   served, deleters, dlResp, upload>>
    /\ UNCHANGED <<jobs, registry, jobsMu, jobQueue, pending, pc, cur, err,
                   result, ctxErr, proc, reader, dl, cancelResp, cancelledAt,
                   dequeued>>

\* the temp directory can be created and the copy of an existing upload
\* succeeds; the copy of a missing one is left to copyFile
StageInputIfPresent(w) ==
    /\ StageInput(w)
    /\ err'[w] # "failed to create temp dir"
    /\ fs[cur[w]].input # "none" => pc'[w] = "upscale"

\* one step of worker w
StaleStep(w) ==
    \/ Dequeue(w)
    \/ ClaimJob(w)
    \/ ClaimSetup(w)
    \/ StageInputIfPresent(w)
    \/ FailStatus(w)
    \/ FailError(w)
    \/ UpscaleStartQuiet(w)
    \/ CmdWait(w)
    \/ InspectOutputQuiet(w)
    \/ PublishQuiet(w)
    \/ Finalize(w)
    \/ FinalizeProgress(w)
    \/ FinalizeResult(w)

NextStale ==
    \/ SaveUploadOfJob
    \/ \E now \in LaterReadings : SubmitUploaded(now)
    \/ \E id \in JobIds : Enqueue(id)
    \/ \E id \in KnownIDs({1}) : CancelJob(id)
    \/ Tick
    \/ \E job \in JobIds : SweepInput(job)
    \/ \E w \in Workers : StaleStep(w)
    \/ \E id \in JobIds : SubprocessRuns(id)
    \/ \E id \in JobIds : ReaderEOF(id)

FairnessStale ==
    /\ \A w \in Workers : WF_vars(StaleStep(w))
    /\ \A id \in JobIds : WF_vars(Enqueue(id))
    /\ \A id \in JobIds : WF_vars(SubprocessRuns(id))
    /\ \A id \in JobIds : WF_vars(ReaderEOF(id))

SpecStale == Init /\ [][NextStale]_vars /\ FairnessStale


(* ------------------------------- claims -------------------------------- *)
\* the worker has received the job and has left processJob for it
Finished(id) == id \in dequeued /\ \A w \in Workers : cur[w] # id

\* the edges of the job state machine
AllowedTransitions ==
    {<<"queued", "processing">>, <<"queued", "cancelled">>,
     <<"processing", "completed">>, <<"processing", "failed">>,
     <<"processing", "cancelled">>}

\* C1: a job's Status changes only along queued->processing, queued->cancelled,
\* processing->completed, processing->failed, processing->cancelled; a
\* terminal Status never changes again.
C1_StatusStateMachine ==
    [][\A id \in DOMAIN jobs :
         jobs'[id].Status # jobs[id].Status
           => <<jobs[id].Status, jobs'[id].Status>> \in AllowedTransitions]_vars

\* C2: observed with the registry mutex available, a job's Result is non-nil
\* if and only if its Status is completed.
C2_ResultIffCompleted ==
    \A id \in DOMAIN jobs :
       jobsMu = Free => (~jobs[id].Result.nil <=> jobs[id].Status = "completed")

C2_Witness ==
    \E id \in DOMAIN jobs :
       jobsMu = Free /\ jobs[id].Status = "completed" /\ ~jobs[id].Result.nil

\* C3: observed with the registry mutex available, a job's Error is non-nil
\* if and only if its Status is failed.
C3_ErrorIffFailed ==
    \A id \in DOMAIN jobs :
       jobsMu = Free => (jobs[id].Error # Nil <=> jobs[id].Status = "failed")

C3_Witness ==
    \E id \in DOMAIN jobs :
       jobsMu = Free /\ jobs[id].Status = "failed" /\ jobs[id].Error # Nil

\* C4: a job cancelled while queued stays cancelled; the worker that dequeues
\* it discards it at the first check: no context, no staged file, no
\* subprocess, and never a file at its output path.
C4_CancelQueued ==
    \A id \in DOMAIN jobs :
       cancelledAt[id] = "queued"
         => /\ jobs[id].Status = "cancelled"
            /\ ctxErr[id] = "unset"
            /\ proc[id] = "none"
            /\ reader[id] = "none"
            /\ fs[id].tmpIn = "none" /\ fs[id].tmpOut = "none"
            /\ fs[id].out = "none"
            /\ \A w \in Workers : cur[w] = id => pc[w] = "claim"

C4_Witness ==
    \E id \in DOMAIN jobs : cancelledAt[id] = "queued" /\ Finished(id)

\* C5: a job cancelled while processing ends with Status cancelled once the
\* worker has left processJob, at whatever step the cancellation arrived.
C5_CancelProcessing ==
    \A id \in DOMAIN jobs :
       cancelledAt[id] = "processing" /\ Finished(id)
         => jobs[id].Status = "cancelled"

\* C6: once the worker has finished with a job whose Status is failed or
\* cancelled, no file exists at the job's requested output path.
C6_NoArtifactUnlessCompleted ==
    \A id \in DOMAIN jobs :
       Finished(id) /\ jobs[id].Status \in {"failed", "cancelled"}
         => fs[id].out = "none"

\* C7: publish happens before mark-complete: in the step that makes Status
\* completed a file exists at the requested output path and the result the
\* worker attaches in that critical section is non-nil and names that path;
\* once the critical section is over the job's Result is that result.
C7_PublishBeforeComplete ==
    /\ [][\A id \in DOMAIN jobs :
            jobs[id].Status # "completed" /\ jobs'[id].Status = "completed"
              => /\ fs'[id].out # "none"
                 /\ \E w \in Workers :
                      /\ cur[w] = id
                      /\ ~result'[w].nil
                      /\ result'[w].OutputPath = "out"]_vars
    /\ [](\A id \in DOMAIN jobs :
            jobsMu = Free /\ jobs[id].Status = "completed"
              => ~jobs[id].Result.nil /\ jobs[id].Result.OutputPath = "out")

C7_Witness ==
    \E id \in DOMAIN jobs :
       /\ jobsMu = Free
       /\ jobs[id].Status = "completed"
       /\ jobs[id].Result.OutputPath = "out"
       /\ fs[id].out # "none"
       /\ fs[id].tmpOut = "none"

\* C8: a handler that got the job from GetJob and reads it after the mutex
\* was released never sees Status completed with Result still nil.
C8_NoCompletedWithoutResult == dl.pc # "panic"

\* C9: the values taken by a job's Progress over its lifetime never decrease.
C9_ProgressMonotonic ==
    [][\A id \in DOMAIN jobs : jobs'[id].Progress >= jobs[id].Progress]_vars

\* C10: whenever Status is completed Progress is 100, except inside the
\* critical section that made the job completed, before it writes Progress.
C10_CompletedProgress ==
    \A id \in DOMAIN jobs :
       jobs[id].Status = "completed" /\ jobs[id].Progress # CompletedProgress
         => \E w \in Workers :
              jobsMu = w /\ cur[w] = id /\ pc[w] = "finalProgress"

C10_Witness ==
    \E w \in Workers :
       /\ pc[w] = "finalResult"
       /\ jobsMu = w
       /\ jobs[cur[w]].Status = "completed"
       /\ jobs[cur[w]].Progress = CompletedProgress


\* C11: a job's Progress is always an integer in 0..100, whatever percentages
\* the subprocess prints.
C11_ProgressInRange ==
    \A id \in DOMAIN jobs : jobs[id].Progress \in 0..100

\* C12: SubmitJob never waits for queue space: whenever the mutex can be
\* taken it can return, also with the queue full and every worker busy; the
\* job it registers has Status queued and Progress 0 and GetJob on the
\* returned ID finds that job at once.
C12_SubmitNeverBlocks ==
    /\ [](jobsMu = Free /\ NewHandle \in DOMAIN fs
            => ENABLED (\E now \in ClockReadings :
                          SubmitJob([Scale |-> MaxScale], now, TRUE)))
    /\ [][DOMAIN jobs' # DOMAIN jobs
            => LET job == NewHandle IN
               /\ jobs'[job].Status = "queued"
               /\ jobs'[job].Progress = InitialProgress
               /\ jobs'[job].ID \in DOMAIN registry'
               /\ registry'[jobs'[job].ID] = job]_vars

C12_Witness ==
    /\ Len(jobQueue) = QueueCap
    /\ \A w \in Workers : pc[w] # "idle"
    /\ pending = {Cardinality(DOMAIN jobs)}
    /\ \A job \in pending :
         /\ jobs[job].Status = "queued"
         /\ jobs[job].Progress = InitialProgress
         /\ GetJob(jobs[job].ID)

\* C13: every SubmitJob returns an ID that was not in the registry, so every
\* Job object ever registered is still the one registered under its ID.
C13_FreshID ==
    \A job \in DOMAIN jobs : registry[jobs[job].ID] = job

\* C14: CancelJob on a completed or failed job answers "job already
\* finished", on an unknown ID "job not found"; the call changes no field of
\* any job and invokes no cancellation handle.
C14_CancelFinished ==
    /\ [](/\ cancelResp.found \in {"completed", "failed"}
             => cancelResp.error = "job already finished"
          /\ cancelResp.found = "missing"
             => cancelResp.error = "job not found"
          /\ cancelResp.found \in {"completed", "failed", "missing"}
             => ~cancelResp.invoked)
    /\ [][cancelResp' # cancelResp
            /\ cancelResp'.found \in {"completed", "failed", "missing"}
            => jobs' = jobs /\ ctxErr' = ctxErr]_vars

C14_Witness ==
    /\ cancelResp.found = "completed"
    /\ cancelResp.error = "job already finished"
    /\ \E job \in DOMAIN jobs : jobs[job].Status = "completed"

\* C15: CancelJob on a job that is already cancelled returns nil, changes no
\* field of any job and does not invoke the cancellation handle again.
C15_CancelIdempotent ==
    /\ [](cancelResp.found = "cancelled"
             => cancelResp.error = Nil /\ ~cancelResp.invoked)
    /\ [][cancelResp' # cancelResp /\ cancelResp'.found = "cancelled"
            => jobs' = jobs /\ ctxErr' = ctxErr]_vars

C15_Witness ==
    /\ cancelResp.found = "cancelled"
    /\ cancelResp.error = Nil
    /\ \E job \in DOMAIN jobs :
         jobs[job].Status = "cancelled" /\ jobs[job].cancelFunc

\* the subprocess of the job was spawned and cmd.Wait has not reaped it yet
Spawned(job) == proc[job] \notin {"none", "reaped"}

\* C16: with n workers started, at most n jobs have Status processing and at
\* most n subprocesses exist at any time.
C16_AtMostNProcessing ==
    /\ Cardinality({job \in DOMAIN jobs : jobs[job].Status = "processing"})
         <= NumWorkers
    /\ Cardinality({job \in DOMAIN jobs : Spawned(job)}) <= NumWorkers

C16_Witness ==
    /\ \A w \in Workers :
         /\ cur[w] # NoJob
         /\ jobs[cur[w]].Status = "processing"
         /\ proc[cur[w]] = "running"
    /\ Len(jobQueue) = QueueCap
    /\ pending # {}

\* C17: jobs are dequeued in submission order: a job submitted after another
\* is never received by a worker before it.
C17_FIFO ==
    \A a \in DOMAIN jobs, b \in DOMAIN jobs :
       a < b /\ b \in dequeued => a \in dequeued

\* C18: a request that violates a precondition of the upscale (unsupported
\* scale, missing input file) and is never cancelled ends failed with a
\* "validation failed" Error, and no subprocess was ever spawned for it.
C18_ValidationFailure ==
    \A id \in DOMAIN jobs :
       /\ Finished(id)
       /\ cancelledAt[id] = "never"
       /\ ~ScaleValid(jobs[id].Request.Scale) \/ fs[id].input = "none"
       => /\ jobs[id].Status = "failed"
          /\ jobs[id].Error = "validation failed"
          /\ proc[id] = "none"

\* C19: once processJob has returned for a job, its scratch input copy is
\* gone, whatever the outcome.
C19_ScratchInputRemoved ==
    \A id \in DOMAIN jobs : Finished(id) => fs[id].tmpIn = "none"

\* C20: once processJob has returned for a job that ended failed or
\* cancelled, no scratch output file of the job remains.
C20_ScratchOutputRemoved ==
    \A id \in DOMAIN jobs :
       Finished(id) /\ jobs[id].Status \in {"failed", "cancelled"}
         => fs[id].tmpOut = "none"

\* a run of CleanupOldFiles has returned and the routine waits for a tick
RunDone == sweeper.pc = "wait" /\ sweeper.ran

\* C21 as stated: after a run of CleanupOldFiles in which no deletion failed,
\* the entries removed from the two directories are exactly those that were
\* modified before now minus the TTL, and none of those is left.
C21_SweepExact ==
    RunDone /\ sweeper.deleteFailed = {}
      => /\ sweeper.removed = sweeper.aged
         /\ \A f \in sweeper.aged : ~Present(f)

\* C21, amended: a run never removes an entry modified at or after the
\* cutoff; and a run in which no directory listing, no stat and no deletion
\* failed removes exactly the entries modified before the cutoff.
C21_SweepExactNoFailure ==
    /\ \A f \in sweeper.removed : files[f].mtime < sweeper.cutoff
    /\ RunDone /\ sweeper.deleteFailed = {} /\ sweeper.statFailed = {}
         /\ ~sweeper.listFailed
         => /\ sweeper.removed = sweeper.aged
            /\ \A f \in sweeper.aged : ~Present(f)

\* a run without failure has removed an aged entry and left an entry that
\* was modified exactly at the cutoff
C21_Witness ==
    /\ RunDone /\ sweeper.deleteFailed = {} /\ sweeper.statFailed = {}
    /\ ~sweeper.listFailed
    /\ sweeper.removed # {}
    /\ \E f \in DOMAIN files : Present(f) /\ files[f].mtime = sweeper.cutoff

\* C22: in a run in which both directories were listed, every aged entry
\* other than those whose own stat or deletion failed is removed, in the same
\* and in the other directory; that holds for a later run too, so an entry
\* whose deletion failed before is removed once its deletion succeeds.
C22_SweepContinues ==
    RunDone /\ ~sweeper.listFailed
      => \A f \in sweeper.aged \ (sweeper.statFailed \cup sweeper.deleteFailed) :
            ~Present(f)

\* the deletion of f failed in an earlier run, in which g, listed after f,
\* was removed all the same; the run that just ended has removed f
C22_Witness ==
    /\ RunDone
    /\ \E f \in sweeper.failedBefore \cap sweeper.removed :
         \E g \in DOMAIN files :
            /\ g > f
            /\ ~Present(g)
            /\ g \notin sweeper.removed

\* C29: the requested output path only ever receives the whole scratch
\* output in one step: no step puts there anything but the content the
\* scratch output file had, on the rename and on the copy path alike.
C29_NoPartialOutput ==
    [][\A id \in DOMAIN jobs :
          fs'[id].out # fs[id].out => fs'[id].out = fs[id].tmpOut]_vars

\* C30: a job whose output the worker has moved to the requested path, by
\* rename or by the copy that replaces a failed rename, ends completed with
\* the file at that path and no scratch output left; a job for which rename
\* and copy both failed ends failed with the Error of the failed move.
C30_PublishOutcome ==
    [][\A w \in Workers :
          /\ pc[w] = "final" /\ pc'[w] # "final"
               /\ ~result[w].nil /\ result[w].OutputPath = "out"
               => /\ jobs'[cur[w]].Status = "completed"
                  /\ fs[cur[w]].out # "none"
                  /\ fs[cur[w]].tmpOut = "none"
          /\ pc[w] = "fail2" /\ pc'[w] # "fail2"
               /\ err[w] = "failed to move output to final location"
               => /\ jobs'[cur[w]].Status = "failed"
                  /\ jobs'[cur[w]].Error = err[w]]_vars

\* C23: under delete_after_download the output of a job is sent by at most
\* one download request.
C23_DownloadOnce ==
    ShouldDeleteAfterDownload => \A job \in DOMAIN jobs : Served(job) <= 1

\* C24: a download request sends the file only for a job whose Status is
\* completed; a request for an unknown ID is answered "job not found" and a
\* request for a job that is queued, processing, failed or cancelled is
\* answered "job not completed", whatever exists at its output path.
C24_DownloadOnlyCompleted ==
    /\ [](/\ dlResp.answer = "file" => jobs[dlResp.job].Status = "completed"
          /\ dlResp.answer # "none" /\ dlResp.job = NoJob
               => dlResp.answer = "job not found"
          /\ dlResp.job # NoJob /\ dlResp.status # "completed"
               => dlResp.answer = "job not completed")
    /\ [][\A job \in DOMAIN jobs :
            Served(job)' # Served(job)
              => /\ jobs[job].Status = "completed"
                 /\ dlResp'.answer = "file" /\ dlResp'.job = job]_vars

\* a request for a cancelled job was refused although the job's output file
\* exists at the requested path
C24_Witness ==
    /\ dlResp.answer = "job not completed"
    /\ dlResp.status = "cancelled"
    /\ fs[dlResp.job].out # "none"

\* the model names the directory holds
InstalledModels ==
    {ModelName(modelsDir[i]) :
       i \in {k \in DOMAIN modelsDir : IsModelEntry(modelsDir[k])}}

\* C25: the answer to /models?scale=s, s a number, lists exactly the
\* installed models whose supported scales contain s, each of them once and
\* with its supported scales.
C25_ModelsFiltered ==
    modelsResp.status = 200 /\ modelsResp.query.given /\ modelsResp.query.parsed
      => LET models == modelsResp.models IN
         /\ {models[i].Name : i \in DOMAIN models}
              = {n \in InstalledModels : modelsResp.query.scale \in SupportedScales(n)}
         /\ \A i \in DOMAIN models, j \in DOMAIN models :
               i # j => models[i].Name # models[j].Name
         /\ \A i \in DOMAIN models :
               models[i].SupportedScales = SupportedScales(models[i].Name)

\* custom.param, custom.bin and the 4x-only model are installed, and the
\* list for scale 2 is the one model custom
C25_Witness ==
    /\ modelsResp.status = 200
    /\ modelsResp.query = [given |-> TRUE, parsed |-> TRUE, scale |-> MinScale]
    /\ \E i \in DOMAIN modelsDir, j \in DOMAIN modelsDir, k \in DOMAIN modelsDir :
          /\ modelsDir[i] = [name |-> <<"custom", "param">>, isDir |-> FALSE]
          /\ modelsDir[j] = [name |-> <<"custom", "bin">>, isDir |-> FALSE]
          /\ modelsDir[k].name = <<"realesrgan-x4plus-anime", "bin">>
          /\ ~modelsDir[k].isDir
    /\ Len(modelsResp.models) = 1
    /\ modelsResp.models[1].Name = <<"custom">>

\* the Status values a job does not leave
TerminalStatus == {"completed", "failed", "cancelled"}

\* C26: under fair scheduling, with subprocesses that exit or are killed at
\* the deadline, every submitted job eventually has a terminal Status, also
\* when more jobs are submitted than workers and queue slots can hold.
C26_EveryJobEnds ==
    \A id \in PoolJobIds :
       (id \in DOMAIN jobs)
         ~> (id \in DOMAIN jobs /\ jobs[id].Status \in TerminalStatus)

\* more jobs than one worker and the queue can hold were submitted before
\* any ended, and all of them have ended
C26_Witness ==
    /\ DOMAIN jobs = PoolJobIds
    /\ PoolJobs > NumWorkers + QueueCap
    /\ \A id \in PoolJobIds : jobs[id].Status \in TerminalStatus
    /\ \E id \in PoolJobIds : jobs[id].Status = "failed"
    /\ \E id \in PoolJobIds : jobs[id].Status = "cancelled"
    /\ \E id \in PoolJobIds : jobs[id].Status = "completed"

\* the jobs in the channel buffer
Queued == {jobQueue[i] : i \in DOMAIN jobQueue}

\* C27: a step changes at most one Job Record, and only as the step of the
\* worker that holds the job or as a CancelJob on a registered job, which
\* only sets its Status; such steps leave the registry alone; a job leaves
\* the queue only into the hands of an idle worker; and the worker that has
\* written the Error of a failed job is back at its receive on the queue.
C27_Containment ==
    [][LET changed == {b \in DOMAIN jobs : jobs'[b] # jobs[b]} IN
       /\ Cardinality(changed) <= 1
       /\ \A b \in changed :
             \/ \E w \in DOMAIN cur : cur[w] = b /\ pc'[w] # pc[w]
             \/ /\ jobs'[b] = [jobs[b] EXCEPT !.Status = "cancelled"]
                /\ \E id \in DOMAIN registry : registry[id] = b
                /\ pc' = pc
       /\ \A w \in DOMAIN cur :
             pc'[w] # pc[w] => \A b \in changed : cur[w] = b
       /\ DOMAIN jobs' = DOMAIN jobs => registry' = registry
       /\ \A b \in Queued :
             \/ b \in {jobQueue'[i] : i \in DOMAIN jobQueue'}
             \/ \E w \in DOMAIN cur : pc[w] = "idle" /\ cur'[w] = b
       /\ \A w \in DOMAIN cur :
             pc[w] = "finalErr" /\ pc'[w] # pc[w]
               => pc'[w] = "idle" /\ cur'[w] = NoJob]_vars

\* the first job has failed, the second has been processed to completion
\* and every worker is back at its receive on the queue
C27_Witness ==
    /\ DOMAIN jobs = MultiJobIds
    /\ jobs[1].Status = "failed"
    /\ jobs[MultiJobs].Status = "completed"
    /\ jobs[MultiJobs].Result = NewResult("out")
    /\ \A w \in DOMAIN cur : cur[w] = NoJob

\* C28: every allocated job is either still with its send goroutine, or
\* once in the queue, or received by a worker, never two of these; no two
\* workers hold the same job; and a subprocess is only ever started for a
\* job that never had one, by the worker that holds the job.
C28_OnceEach ==
    /\ [](/\ \A id \in DOMAIN jobs :
               /\ Cardinality({i \in DOMAIN jobQueue : jobQueue[i] = id})
                    + (IF id \in pending THEN 1 ELSE 0)
                    + (IF id \in dequeued THEN 1 ELSE 0) = 1
          /\ \A w \in DOMAIN cur, v \in DOMAIN cur :
               w # v /\ cur[w] # NoJob => cur[w] # cur[v]
          /\ \A w \in DOMAIN cur : cur[w] # NoJob => cur[w] \in dequeued)
    /\ [][\A id \in DOMAIN proc :
            proc'[id] = "running" /\ proc[id] # "running"
              => /\ proc[id] = "none"
                 /\ \E w \in DOMAIN cur : cur[w] = id /\ pc[w] = "upscale"]_vars

\* one job was cancelled and its killed subprocess reaped, the worker has
\* let go of it, and the subprocess of another job is running
C28_Witness ==
    \E a \in DOMAIN jobs, b \in DOMAIN jobs :
       /\ a # b
       /\ a \in dequeued /\ \A w \in DOMAIN cur : cur[w] # a
       /\ jobs[a].Status = "cancelled"
       /\ proc[a] = "reaped"
       /\ proc[b] = "running"

\* C31: once a job's Status, as seen with the registry mutex free, is
\* completed, failed or cancelled, no step writes its Progress, Result or
\* Error: neither a worker step nor a progress callback of the reader.
C31_TerminalFieldsFrozen ==
    [][\A id \in DOMAIN jobs :
         jobsMu = Free /\ jobs[id].Status \in TerminalStatus
           => /\ jobs'[id].Progress = jobs[id].Progress
              /\ jobs'[id].Result = jobs[id].Result
              /\ jobs'[id].Error = jobs[id].Error]_vars

\* C32: in every state a job's cancelFunc is set only if its Status is
\* processing: not set while queued, and cleared again as soon as the job
\* is completed, failed or cancelled.
C32_CancelFuncOnlyProcessing ==
    \A id \in DOMAIN jobs :
       jobs[id].cancelFunc => jobs[id].Status = "processing"

\* the steps of processJob taken with the registry mutex held
CriticalSection == {"claim2", "fail2", "finalErr", "finalProgress", "finalResult"}

\* the next step of the worker that holds the mutex
CriticalStep(w) ==
    ClaimSetup(w) \/ FailError(w) \/ FinalizeError(w) \/ FinalizeProgress(w)
      \/ FinalizeResult(w)

\* C33: the registry mutex is held only by a worker inside one of its
\* critical sections, whose next step never waits (no file copy, rename,
\* subprocess wait or channel operation is made with the mutex held), and
\* the holder's steps stay inside the section until it unlocks; whenever the
\* mutex is free SubmitJob and CancelJob on any ID can take it and return and
\* GetJob finds every registered job, also with every worker waiting for its
\* subprocess and the queue full.
C33_MutexNeverHeldBlocking ==
    /\ [](jobsMu # Free
            => /\ jobsMu \in Workers
               /\ pc[jobsMu] \in CriticalSection
               /\ ENABLED CriticalStep(jobsMu))
    /\ [](jobsMu = Free
            => /\ NewHandle \in DOMAIN fs
                  => ENABLED (\E now \in LaterReadings :
                                SubmitJob([Scale |-> MaxScale], now, TRUE))
               /\ \A id \in KnownIDs(PoolJobIds) :
                    ENABLED (CancelJob(id) \/ CancelJobNoop(id))
               /\ \A job \in DOMAIN jobs : GetJob(jobs[job].ID))
    /\ [][jobsMu # Free /\ pc'[jobsMu] # pc[jobsMu]
            => pc'[jobsMu] \in CriticalSection \/ jobsMu' = Free]_vars

\* the worker waits for its subprocess, the queue is full, a send goroutine
\* waits for a slot, and the mutex is free
C33_Witness ==
    /\ \A w \in Workers : pc[w] = "cmdWait" /\ proc[cur[w]] = "running"
    /\ Len(jobQueue) = QueueCap
    /\ pending # {}
    /\ jobsMu = Free

\* C34: the channel buffer never holds more than its capacity; a job whose
\* send goroutine waits for a slot is registered under its ID and, unless a
\* CancelJob changed it, has Status queued; it leaves the waiting goroutine
\* only into the queue, at its end; and under fair scheduling, with workers
\* that free slots, it is eventually admitted.
C34_FullQueueAdmission ==
    /\ [](Len(jobQueue) <= QueueCap)
    /\ [](\A job \in pending :
            /\ GetJob(jobs[job].ID)
            /\ registry[jobs[job].ID] = job
            /\ cancelledAt[job] = "never" => jobs[job].Status = "queued")
    /\ [][\A job \in pending :
            job \in pending' \/ jobQueue' = Append(jobQueue, job)]_vars
    /\ \A id \in PoolJobIds :
         (id \in pending) ~> (id \in Queued \/ id \in dequeued)

\* every worker holds a job, the queue is full of jobs submitted earlier,
\* and the job submitted last waits for a slot, queued and registered
C34_Witness ==
    /\ \A w \in Workers : cur[w] # NoJob
    /\ Len(jobQueue) = QueueCap
    /\ pending = {PoolJobs}
    /\ \A i \in DOMAIN jobQueue : jobQueue[i] < PoolJobs
    /\ jobs[PoolJobs].Status = "queued"
    /\ registry[jobs[PoolJobs].ID] = PoolJobs

\* C35: SaveUpload answers "file too large" and writes no file for every
\* upload longer than MaxFileSizeMB * 1024 * 1024 bytes, and saves every
\* upload of at most that length (unless os.WriteFile itself fails).
C35_SizeLimit ==
    upload.called
      => /\ upload.size > upload.maxMB * MiB
            => upload.error = "file too large" /\ ~upload.written
         /\ upload.size <= upload.maxMB * MiB
            => upload.error # "file too large"
         /\ upload.size <= upload.maxMB * MiB /\ upload.error = Nil
            => upload.written

\* the step ends the processing of a job whose deadline has passed and for
\* which CancelJob was never called
DeadlineEnds(id) ==
    /\ ctxErr[id] = "DeadlineExceeded"
    /\ cancelledAt'[id] = "never"
    /\ jobs[id].Status = "processing"
    /\ jobs'[id].Status # "processing"

\* C36 as stated: a job whose deadline expired while it was processing, and
\* for which CancelJob was never called, ends failed.
C36_DeadlineFails ==
    [][\A id \in DOMAIN jobs : DeadlineEnds(id) => jobs'[id].Status = "failed"]_vars

\* C36: once the deadline has passed a subprocess that still runs can be
\* killed, and cmd.Wait on a killed subprocess returns an error; a job whose
\* deadline passed while it was processing, never cancelled, does not end
\* cancelled: it ends failed when an error reached the end of processJob,
\* completed otherwise, and a failed job gets that error as its Error.
C36_DeadlineNeverCancels ==
    /\ [](\A id \in DOMAIN jobs :
            ctxErr[id] = "DeadlineExceeded" /\ proc[id] = "running"
              => ENABLED ProcKill(id))
    /\ [][\A w \in Workers :
            pc[w] = "cmdWait" /\ pc'[w] # "cmdWait" /\ proc[cur[w]] = "killed"
              => err'[w] # Nil]_vars
    /\ [][\A id \in DOMAIN jobs :
            DeadlineEnds(id)
              => /\ jobs'[id].Status # "cancelled"
                 /\ \A w \in Workers :
                      cur[w] = id
                        => jobs'[id].Status
                             = IF err[w] # Nil THEN "failed" ELSE "completed"]_vars
    /\ [][\A w \in Workers :
            pc[w] \in {"finalErr", "fail2"} /\ pc'[w] # pc[w]
              => err[w] # Nil /\ jobs'[cur[w]].Error = err[w]]_vars

\* the deadline passed, the subprocess was killed and reaped, and the job,
\* never cancelled, has just been marked failed
C36_Witness ==
    \E w \in Workers :
       /\ pc[w] = "finalErr"
       /\ ctxErr[cur[w]] = "DeadlineExceeded"
       /\ cancelledAt[cur[w]] = "never"
       /\ proc[cur[w]] = "reaped"
       /\ err[w] = "upscale failed"
       /\ jobs[cur[w]].Status = "failed"

\* C37: a job has Status cancelled only if a CancelJob call changed its
\* Status, and the branch of the last critical section that sets cancelled
\* for a context error Canceled is dead: whenever a worker arrives there
\* with an error and a cancelled context, the Status is cancelled already.
C37_CancelledOnlyByCancelJob ==
    /\ \A id \in DOMAIN jobs :
         jobs[id].Status = "cancelled" => cancelledAt[id] # "never"
    /\ \A w \in Workers :
         pc[w] = "final" /\ err[w] # Nil /\ ctxErr[cur[w]] = "Canceled"
           => jobs[cur[w]].Status = "cancelled"

\* a worker arrives at the last critical section with the error of a killed
\* subprocess and a cancelled context, for a job CancelJob marked cancelled
\* while it was processing
C37_Witness ==
    \E w \in Workers :
       /\ pc[w] = "final"
       /\ err[w] = "upscale failed"
       /\ ctxErr[cur[w]] = "Canceled"
       /\ cancelledAt[cur[w]] = "processing"
       /\ jobs[cur[w]].Status = "cancelled"

\* C38: no step removes an ID from the registry, and the ID of every job
\* ever submitted is found by GetJob, whatever became of the job and of its
\* output file.
C38_NeverUnregistered ==
    /\ [](\A job \in DOMAIN jobs : GetJob(jobs[job].ID))
    /\ [][\A id \in DOMAIN registry : id \in DOMAIN registry']_vars

\* the job completed, its file was downloaded and then deleted by the
\* delete-after-download goroutine, and GetJob still finds it
C38_Witness ==
    \E job \in DOMAIN jobs :
       /\ jobs[job].Status = "completed"
       /\ Served(job) >= 1
       /\ ShouldDeleteAfterDownload
       /\ job \notin deleters
       /\ fs[job].out = "none"
       /\ GetJob(jobs[job].ID)

\* C39: the sweeper can remove an upload that is older than the cutoff
\* whatever the Status of its job; and a job whose upload is gone while it
\* is queued does not hang: unless a CancelJob call changes it, it ends
\* failed with the Error "failed to copy input to temp", its worker is free
\* again and no subprocess was ever spawned for it.
C39_SweptInputFails ==
    /\ [](\A job \in DOMAIN jobs :
            Present(job) /\ Before(files[job].mtime, Cutoff(clock))
              => ENABLED SweepInput(job))
    /\ \A id \in JobIds :
         (id \in DOMAIN jobs /\ jobs[id].Status = "queued"
            /\ fs[id].input = "none")
           ~> (\/ id \in DOMAIN jobs /\ cancelledAt[id] # "never"
               \/ /\ id \in DOMAIN jobs
                  /\ Finished(id)
                  /\ jobs[id].Status = "failed"
                  /\ jobs[id].Error = "failed to copy input to temp"
                  /\ proc[id] = "none")

\* the upload of a job was swept before a worker staged it, and the job,
\* never cancelled, has ended failed on the copy, without a subprocess
C39_Witness ==
    \E id \in DOMAIN jobs :
       /\ ~Present(id)
       /\ fs[id].input = "none"
       /\ cancelledAt[id] = "never"
       /\ Finished(id)
       /\ jobs[id].Status = "failed"
       /\ jobs[id].Error = "failed to copy input to temp"
       /\ proc[id] = "none"

\* C40: when the listing of the upload directory fails the run ends at once
\* with the error, having removed nothing; a run in which a listing failed
\* has removed no entry of the output directory; and the cleanup routine
\* goes on: whenever it waits and a tick has arrived, the next run starts,
\* also after a run that failed.
C40_ListFailureEndsRun ==
    /\ [][sweeper.pc = "list" /\ sweeper.dirs = Dirs /\ sweeper'.listFailed
            => /\ sweeper'.pc = "wait"
               /\ sweeper'.dirs = <<>>
               /\ sweeper'.removed = {}
               /\ files' = files]_vars
    /\ [](sweeper.listFailed
            => \A f \in sweeper.removed : files[f].dir = "upload")
    /\ [](sweeper.pc = "wait" /\ ticker = 1 => ENABLED SweepStart)

\* a run has ended on the failed listing of the upload directory (an aged
\* upload whose stat and deletion did not fail is still there), an aged
\* entry of the output directory is still there, and the next tick has
\* arrived
C40_Witness ==
    /\ RunDone
    /\ sweeper.listFailed
    /\ sweeper.removed = {}
    /\ \E g \in sweeper.aged \ (sweeper.statFailed \cup sweeper.deleteFailed) :
         files[g].dir = "upload" /\ Present(g)
    /\ \E f \in sweeper.aged : files[f].dir = "output" /\ Present(f)
    /\ ticker = 1

====
